---- MODULE Spec2Model ----
(***************************************************************************)
(* RentalLens: the scan detail screen (analysis normalisation), the audit  *)
(* report screen (AI verification results and manual found-count           *)
(* adjustments).                                                           *)
(*                                                                         *)
(* JavaScript values are tagged records.  A string is a sequence of        *)
(* tokens: a character [c |-> code], a JSON punctuation mark or keyword    *)
(* [p |-> "{"], a number literal [num |-> n], a word of letters            *)
(* [w |-> "items"], and a quoted string literal [lit |-> s] whose content  *)
(* s is again a sequence of tokens (quoting and unquoting are inverse).    *)
(* Objects are functions from key strings to values; arrays are sequences. *)
(***************************************************************************)
EXTENDS Integers, Sequences, FiniteSets, TLC

VARIABLES
    \* ---- scan detail screen (DetailScreen) ----
    dbAnalysis,     \* the ai_analysis column of the scans row in the database
    scan,           \* useState scan: "null" or "row"
    items,          \* useState items
    locationName,   \* useState locationName
    detailLoading,  \* useState loading of the detail screen
    \* ---- audit report screen (AuditReportScreen) ----
    expectedItems,  \* route parameter expectedItems (a string)
    newImage,       \* the items really visible on the new photo
    loading,        \* useState loading
    results,        \* useState results: a list of object references
    heap,           \* the outcome objects the references point to
    lastCall,       \* the last handler that ran, its arguments and whether it threw
    \* ---- the scans table and HomeScreen ----
    scans,          \* the rows of the scans table, as the queries return them
    sections,       \* useState sections of HomeScreen
    homeLoading,    \* useState loading of HomeScreen
    homeFetch,      \* how the last fetchInventory ended: "none", "ok", "error", "threw"
    pdfReport,      \* what the last generateAndShareReport listed for each scan
    \* ---- the audit_records table and PropertyDetailScreen's audit report ----
    auditRecords,   \* the rows of audit_records of the session
    generatingAuditId, \* useState generatingAuditId
    reportRooms,    \* the rooms last handed to generateAndShareAuditReport
    auditReport,    \* how the last generateAuditReportForSession ended: "none", "shared", "failed"
    \* ---- the audit_sessions table and PropertyDetailScreen's past audits ----
    auditSessions,  \* the rows of audit_sessions of the property, newest first
    pastAudits,     \* useState pastAudits
    auditsFetch,    \* how the last fetchPastAudits ended: "none", "ok", "error"
    \* ---- ScanScreen ----
    selectedPropId, \* useState selectedPropId
    photo,          \* useState photo: the uri of the captured photo, or null
    uploading,      \* useState uploading
    analyzing,      \* useState analyzing
    analysisResults, \* useState analysisResults
    scanRoomName,   \* useState roomName
    scanLocationName, \* useState locationName
    pipeline,       \* the run of uploadAndAnalyzePhoto: its position, the state it closed over, its results
    storedFiles,    \* the names of the files in the Photos bucket
    insertedScans,  \* the rows inserted into scans by the screen, oldest first
    insertedFor,    \* history: the captured photo each inserted row was made for
    photosTaken,    \* history: the number of photos captured
    uploadsDone,    \* the clock read by Date.now(): the number of runs started
    \* ---- AuditReportScreen: the rendering of the list ----
    rendered,       \* the results of the last render, which the handlers of its rows closed over
    verified,       \* history: the outcomes as runVerification set them
    events,         \* history: the presses of the step buttons, in the order of the events
    \* ---- DetailScreen: the editor ----
    lastEdit,       \* history: the last editor operation handled, its row and its number
    \* ---- DetailScreen: deleting the scan ----
    scanId,         \* route parameter id
    deleteDialog,   \* the alert of deleteScan is shown
    saving,         \* useState saving
    deleteRequest,  \* the delete request: "none", "sent", or "done" when the screen was left
    deletedRows     \* history: the rows the delete removed

detailVars == <<dbAnalysis, scan, items, locationName, detailLoading>>
reportVars == <<expectedItems, newImage, loading, results, heap, lastCall>>
homeVars == <<scans, sections, homeLoading, homeFetch, pdfReport>>
auditVars == <<auditRecords, generatingAuditId, reportRooms, auditReport>>
sessionVars == <<auditSessions, pastAudits, auditsFetch>>
scanVars ==
    <<selectedPropId, photo, uploading, analyzing, analysisResults, scanRoomName,
      scanLocationName, pipeline, storedFiles, insertedScans, insertedFor, photosTaken,
      uploadsDone>>
renderVars == <<rendered, verified, events>>
editVars == <<lastEdit>>
deleteVars == <<scanId, deleteDialog, saving, deleteRequest, deletedRows>>
vars == <<detailVars, reportVars, homeVars, auditVars, sessionVars, scanVars, renderVars, editVars, deleteVars>>

----------------------------------------------------------------------------
(* Bounds *)

MaxItems == 2      \* longest inventory item list
MaxCount == 1      \* largest count the AI reports
MaxResults == 2    \* longest list of verification outcomes
MaxDelta == 2      \* largest |change| of a found-count adjustment
MaxScans == 3      \* most rows of the scans table
MaxRecords == 2    \* most audit records of a session, and most scans they refer to
MaxSessions == 3   \* most audit sessions of the property
MaxPhotos == 2     \* most photos captured on the scan screen
MaxPresses == 2    \* most presses of the step buttons of the report
MaxUploads == 2    \* most runs of uploadAndAnalyzePhoto
MaxEdits == 3      \* most operations of the item editor

----------------------------------------------------------------------------
(* JavaScript values *)

Null == [t |-> "null"]
Undefined == [t |-> "undefined"]
Num(n) == [t |-> "num", n |-> n]
\* the number NaN
NaN == [t |-> "nan"]
Bool(b) == [t |-> "bool", b |-> b]
Str(s) == [t |-> "str", s |-> s]
Arr(a) == [t |-> "arr", a |-> a]
Obj(o) == [t |-> "obj", o |-> o]

Ch(code) == [c |-> code]
P(mark) == [p |-> mark]
W(word) == [w |-> word]

EmptyString == Str(<<>>)

IsString(v) == v.t = "str"
\* Array.isArray(v)
IsArray(v) == v.t = "arr"
\* typeof v === 'object'  (true of null and of arrays as well)
TypeofObject(v) == v.t \in {"null", "arr", "obj"}
\* the truthiness of a value, as tested by &&, || and ?:
Truthy(v) ==
    CASE v.t = "null" -> FALSE
      [] v.t = "undefined" -> FALSE
      [] v.t = "num" -> v.n # 0
      [] v.t = "bool" -> v.b
      [] v.t = "str" -> v.s # <<>>
      [] OTHER -> TRUE
\* key in v, for a non-array object v
HasKey(v, key) == v.t = "obj" /\ key \in DOMAIN v.o
\* v.key : undefined when the property is absent
Get(v, key) ==
    IF HasKey(v, key) THEN v.o[key] ELSE Undefined

\* property names
KItems == <<W("items")>>
KLocation == <<W("location")>>
KName == <<W("name")>>
KCount == <<W("count")>>
KCondition == <<W("condition")>>
KResults == <<W("results")>>
KItem == <<W("item")>>
KExpected == <<W("expected_count")>>
KFound == <<W("found_count")>>
KStatus == <<W("status")>>

NoProps == [k \in {} |-> Null]

----------------------------------------------------------------------------
(* JSON.stringify and JSON.parse *)

RECURSIVE SetToSeq(_)
SetToSeq(S) ==
    IF S = {} THEN <<>>
    ELSE LET x == CHOOSE y \in S : TRUE IN <<x>> \o SetToSeq(S \ {x})

RECURSIVE Stringify(_)
RECURSIVE StringifyElems(_, _)
RECURSIVE StringifyMembers(_, _, _)

StringifyElems(a, i) ==
    IF i > Len(a) THEN <<>>
    ELSE (IF i > 1 THEN <<P(",")>> ELSE <<>>) \o Stringify(a[i])
         \o StringifyElems(a, i + 1)

StringifyMembers(o, keys, i) ==
    IF i > Len(keys) THEN <<>>
    ELSE (IF i > 1 THEN <<P(",")>> ELSE <<>>)
         \o <<[lit |-> keys[i]], P(":")>> \o Stringify(o[keys[i]])
         \o StringifyMembers(o, keys, i + 1)

Stringify(v) ==
    CASE v.t = "null" -> <<P("null")>>
      [] v.t = "num" -> <<[num |-> v.n]>>
      [] v.t = "bool" -> <<P(IF v.b THEN "true" ELSE "false")>>
      [] v.t = "str" -> <<[lit |-> v.s]>>
      [] v.t = "arr" -> <<P("[")>> \o StringifyElems(v.a, 1) \o <<P("]")>>
      [] v.t = "obj" -> <<P("{")>>
                        \o StringifyMembers(v.o, SetToSeq(DOMAIN v.o), 1)
                        \o <<P("}")>>

IsMark(tok, mark) == "p" \in DOMAIN tok /\ tok.p = mark
IsSpace(tok) == "c" \in DOMAIN tok /\ tok.c = 32

ParseFail == [ok |-> FALSE, v |-> Null, n |-> 0]
ParseOk(v, n) == [ok |-> TRUE, v |-> v, n |-> n]

RECURSIVE ParseValue(_, _)
RECURSIVE ParseElems(_, _, _)
RECURSIVE ParseMembers(_, _, _)

\* the elements of an array, after "[" or ","
ParseElems(toks, i, acc) ==
    LET r == ParseValue(toks, i) IN
    IF ~r.ok \/ r.n > Len(toks) THEN ParseFail
    ELSE IF IsMark(toks[r.n], ",") THEN ParseElems(toks, r.n + 1, Append(acc, r.v))
    ELSE IF IsMark(toks[r.n], "]") THEN ParseOk(Arr(Append(acc, r.v)), r.n + 1)
    ELSE ParseFail

\* the members of an object, after "{" or ","; a repeated key keeps the last value
ParseMembers(toks, i, acc) ==
    IF i + 1 > Len(toks) \/ "lit" \notin DOMAIN toks[i] \/ ~IsMark(toks[i + 1], ":")
    THEN ParseFail
    ELSE LET r == ParseValue(toks, i + 2)
             o == [k \in DOMAIN acc \cup {toks[i].lit} |->
                     IF k = toks[i].lit THEN r.v ELSE acc[k]]
         IN IF ~r.ok \/ r.n > Len(toks) THEN ParseFail
            ELSE IF IsMark(toks[r.n], ",") THEN ParseMembers(toks, r.n + 1, o)
            ELSE IF IsMark(toks[r.n], "}") THEN ParseOk(Obj(o), r.n + 1)
            ELSE ParseFail

ParseValue(toks, i) ==
    IF i > Len(toks) THEN ParseFail
    ELSE LET tok == toks[i] IN
         CASE IsMark(tok, "null") -> ParseOk(Null, i + 1)
           [] IsMark(tok, "true") -> ParseOk(Bool(TRUE), i + 1)
           [] IsMark(tok, "false") -> ParseOk(Bool(FALSE), i + 1)
           [] "num" \in DOMAIN tok -> ParseOk(Num(tok.num), i + 1)
           [] "lit" \in DOMAIN tok -> ParseOk(Str(tok.lit), i + 1)
           [] IsMark(tok, "[") ->
                IF i + 1 <= Len(toks) /\ IsMark(toks[i + 1], "]")
                THEN ParseOk(Arr(<<>>), i + 2)
                ELSE ParseElems(toks, i + 1, <<>>)
           [] IsMark(tok, "{") ->
                IF i + 1 <= Len(toks) /\ IsMark(toks[i + 1], "}")
                THEN ParseOk(Obj(NoProps), i + 2)
                ELSE ParseMembers(toks, i + 1, NoProps)
           [] OTHER -> ParseFail

\* JSON.parse(text): ok = FALSE stands for the SyntaxError it throws.
\* White space between tokens is skipped; the whole text must be one value.
JSONParse(text) ==
    LET toks == SelectSeq(text, LAMBDA tok : ~IsSpace(tok))
        r == ParseValue(toks, 1)
    IN IF r.ok /\ r.n = Len(toks) + 1 THEN r ELSE ParseFail

----------------------------------------------------------------------------
(* Inventory items and analysis payloads *)

Sofa == <<W("Sofa")>>
Lamp == <<W("Lamp")>>
Good == <<W("Good")>>
EastWall == <<W("East"), Ch(32), W("Wall")>>

ItemNames == {Sofa, Lamp}

\* { name, count, condition }
Item(name, count, condition) ==
    Obj((KName :> Str(name)) @@ (KCount :> Num(count)) @@ (KCondition :> Str(condition)))

WellFormedItems == {Item(Sofa, c, Good) : c \in 0..MaxCount} \cup {Item(Lamp, 1, Good)}

\* what an array of a payload may hold: items, and objects with fields missing
ItemValues == WellFormedItems \cup {Obj(KName :> Str(Sofa)), Obj(NoProps)}

SeqsUpTo(S, n) == UNION {[1..k -> S] : k \in 0..n}

WellFormedItemLists == SeqsUpTo(WellFormedItems, MaxItems)
ItemLists == SeqsUpTo(ItemValues, MaxItems)

\* values found under the key location
LocationValues == {Str(EastWall), EmptyString, Num(42), Null}
\* values found under the key items
ItemsValues == {Arr(I) : I \in ItemLists} \cup {Num(3), Null, Str(Sofa), Obj(NoProps)}

\* every items value alone and with a location string; the items values of at
\* most one element with every location value
ObjectPayloads ==
    {Obj(NoProps)}
    \cup {Obj(KItems :> i) : i \in ItemsValues}
    \cup {Obj(KLocation :> l) : l \in LocationValues}
    \cup {Obj((KItems :> i) @@ (KLocation :> Str(EastWall))) : i \in ItemsValues}
    \cup {Obj((KItems :> i) @@ (KLocation :> l)) :
            i \in {v \in ItemsValues : IsArray(v) => Len(v.a) <= 1}, l \in LocationValues}

\* payloads that are not strings
NativePayloads ==
    {Null, Num(5), Bool(TRUE)} \cup {Arr(I) : I \in ItemLists} \cup ObjectPayloads

\* texts that are not JSON
GarbageTexts == {<<>>, EastWall, <<P("{")>>, <<P("["), [num |-> 1], P(",")>>,
                 <<P("{"), [lit |-> KItems], P("}")>>, <<P("null"), P("null")>>}

\* a payload encoded as text once, and a payload encoded twice
EncodedOnce == {Str(Stringify(v)) : v \in NativePayloads}
EncodedTwice ==
    {Str(Stringify(Str(Stringify(v)))) :
        v \in {Arr(<<>>), Arr(<<Item(Sofa, 1, Good)>>),
               Obj((KItems :> Arr(<<Item(Sofa, 1, Good)>>)) @@ (KLocation :> Str(EastWall)))}}

Payloads ==
    NativePayloads \cup EncodedOnce \cup EncodedTwice \cup {Str(g) : g \in GarbageTexts}

----------------------------------------------------------------------------
(* DetailScreen.fetchScanDetails *)

\* a variant that decodes again while the decoded value is a string
aiAnalysisOf_DecodeTwice(raw) ==
    IF IsString(raw)
    THEN LET r == JSONParse(raw.s) IN
         IF r.ok
         THEN IF IsString(r.v)
              THEN LET r2 == JSONParse(r.v.s) IN IF r2.ok THEN r2.v ELSE r.v
              ELSE r.v
         ELSE raw
    ELSE raw

\* let aiAnalysis = data.ai_analysis; if it is a string, JSON.parse it, and
\* keep the string when JSON.parse throws
aiAnalysisOf(raw) ==
    IF IsString(raw)
    THEN LET r == JSONParse(raw.s) IN IF r.ok THEN r.v ELSE raw
    ELSE raw

\* a variant that takes aiAnalysis.items || [] without Array.isArray
parsedItems_Unchecked(aiAnalysis) ==
    IF IsArray(aiAnalysis) THEN aiAnalysis.a
    ELSE IF Truthy(aiAnalysis) /\ TypeofObject(aiAnalysis)
         THEN IF HasKey(aiAnalysis, KItems) /\ Truthy(Get(aiAnalysis, KItems))
              THEN IF IsArray(Get(aiAnalysis, KItems))
                   THEN Get(aiAnalysis, KItems).a
                   ELSE <<Get(aiAnalysis, KItems)>>
              ELSE <<>>
    ELSE <<>>

\* parsedItems
parsedItems(aiAnalysis) ==
    IF IsArray(aiAnalysis) THEN aiAnalysis.a
    ELSE IF Truthy(aiAnalysis) /\ TypeofObject(aiAnalysis)
         THEN IF HasKey(aiAnalysis, KItems) /\ IsArray(Get(aiAnalysis, KItems))
              THEN Get(aiAnalysis, KItems).a
              ELSE <<>>
    ELSE <<>>

\* a variant that never reads the location
parsedLocation_Dropped(aiAnalysis) == EmptyString

\* parsedLocation
parsedLocation(aiAnalysis) ==
    IF IsArray(aiAnalysis) THEN EmptyString
    ELSE IF Truthy(aiAnalysis) /\ TypeofObject(aiAnalysis)
         THEN IF HasKey(aiAnalysis, KLocation)
              THEN IF Truthy(Get(aiAnalysis, KLocation))
                   THEN Get(aiAnalysis, KLocation)
                   ELSE EmptyString
              ELSE EmptyString
    ELSE EmptyString

DetailInit ==
    /\ dbAnalysis \in Payloads
    /\ scan = "null"
    /\ items = <<>>
    /\ locationName = EmptyString
    /\ detailLoading = TRUE

\* the row was read: the screen state is set from it
fetchScanDetails ==
    /\ detailLoading
    /\ scan' = "row"
    /\ items' = parsedItems(aiAnalysisOf(dbAnalysis))
    /\ locationName' = parsedLocation(aiAnalysisOf(dbAnalysis))
    /\ detailLoading' = FALSE
    /\ UNCHANGED dbAnalysis

\* the query failed: if (error) throw error; the catch shows an alert
fetchScanDetailsError ==
    /\ detailLoading
    /\ detailLoading' = FALSE
    /\ UNCHANGED <<dbAnalysis, scan, items, locationName>>

----------------------------------------------------------------------------
(* DetailScreen: the editor of the item list *)

\* the last editor operation handled, and how many were handled
NoEdit == [op |-> "none", index |-> 0, n |-> 0]

\* the editor is on screen: not while loading, and not without a scan
editorShown == ~detailLoading /\ scan = "row"

\* texts typed into the name field of a row
NameInputs == {Lamp, <<>>}

\* count + change: a number plus a number; null counts as 0; undefined gives
\* NaN; a text or an object is concatenated to a text that is no number here
plusChange(count, change) ==
    CASE count.t = "num" -> Num(count.n + change)
      [] count.t = "null" -> Num(change)
      [] count.t = "bool" -> Num((IF count.b THEN 1 ELSE 0) + change)
      [] OTHER -> NaN

\* Math.max(0, x): NaN for what is no number
mathMax0(x) ==
    IF x.t = "num" THEN (IF x.n > 0 THEN x ELSE Num(0)) ELSE NaN

newItemCount_NoClamp(count, change) == plusChange(count, change)

\* Math.max(0, newItems[index].count + change)
newItemCount(count, change) == mathMax0(plusChange(count, change))

\* item.key = v
setField(item, key, v) == Obj((key :> v) @@ item.o)

\* the stepper of row index: the - button passes -1, the + button 1
updateItemCount(index, change) ==
    /\ editorShown
    /\ lastEdit.n < MaxEdits
    /\ index \in 0..(Len(items) - 1)
    /\ items' = [items EXCEPT ![index + 1] =
                    setField(@, KCount, newItemCount(Get(@, KCount), change))]
    /\ lastEdit' = [op |-> "updateItemCount", index |-> index, n |-> lastEdit.n + 1]
    /\ UNCHANGED <<dbAnalysis, scan, locationName, detailLoading>>

\* the name field of row index
updateItemName(index, text) ==
    /\ editorShown
    /\ lastEdit.n < MaxEdits
    /\ index \in 0..(Len(items) - 1)
    /\ items' = [items EXCEPT ![index + 1] = setField(@, KName, Str(text))]
    /\ lastEdit' = [op |-> "updateItemName", index |-> index, n |-> lastEdit.n + 1]
    /\ UNCHANGED <<dbAnalysis, scan, locationName, detailLoading>>

\* the Add Item button
addItem ==
    /\ editorShown
    /\ lastEdit.n < MaxEdits
    /\ items' = Append(items, Item(<<>>, 1, Good))
    /\ lastEdit' = [op |-> "addItem", index |-> Len(items), n |-> lastEdit.n + 1]
    /\ UNCHANGED <<dbAnalysis, scan, locationName, detailLoading>>

\* the trash button of row index: newItems.splice(index, 1)
removeItem(index) ==
    /\ editorShown
    /\ lastEdit.n < MaxEdits
    /\ index \in 0..(Len(items) - 1)
    /\ items' = SubSeq(items, 1, index) \o SubSeq(items, index + 2, Len(items))
    /\ lastEdit' = [op |-> "removeItem", index |-> index, n |-> lastEdit.n + 1]
    /\ UNCHANGED <<dbAnalysis, scan, locationName, detailLoading>>

EditInit == lastEdit = NoEdit
EditIdle == lastEdit = NoEdit

\* stored item lists the editor is opened on: empty, one and two items, a
\* count of 0, and an item without a count
EditLists ==
    { <<>>,
      <<Item(Sofa, 1, Good)>>,
      <<Item(Sofa, 0, Good), Item(Lamp, 1, Good)>>,
      <<Item(Lamp, 1, Good), Obj(KName :> Str(Sofa))>> }

EditPayloads == {Arr(list) : list \in EditLists}

----------------------------------------------------------------------------
(* gemini.verifyInventory: the AI service answers with a text *)

Statuses == {"Match", "Mismatch", "Missing"}

\* the largest found count the model lets an adjustment reach
MaxFound == MaxCount + 1

Max(a, b) == IF a >= b THEN a ELSE b

\* one entry of the results array of the answer
OutcomeValue(item, expected, found, status) ==
    Obj((KItem :> Str(item)) @@ (KExpected :> Num(expected))
        @@ (KFound :> Num(found)) @@ (KStatus :> Str(<<W(status)>>)))

\* the entries of an answer: the Sofa expected MaxCount times and the Lamp
\* expected 0 times, found 0 or MaxCount times, with any status
OutcomeValues ==
    {OutcomeValue(Sofa, MaxCount, f, s) : f \in {0, MaxCount}, s \in Statuses}
    \cup {OutcomeValue(Lamp, 0, f, s) : f \in {0, MaxCount}, s \in Statuses}

OutcomeLists == SeqsUpTo(OutcomeValues, MaxResults)

Fenced(text) == <<P("fence json")>> \o text \o <<P("fence")>>

\* the texts the AI service may answer with: the requested object, the same
\* in a markdown fence, an object without results, and texts that are not JSON
ResponseTexts ==
    {Stringify(Obj(KResults :> Arr(l))) : l \in OutcomeLists}
    \cup {Fenced(Stringify(Obj(KResults :> Arr(l)))) : l \in OutcomeLists}
    \cup {Stringify(Obj(NoProps)), Stringify(Null), <<W("Sorry")>>}

\* text.replace(fence json, '').replace(fence, '').trim(): the marks "fence json"
\* and "fence" are the markdown code fence with and without the word json
StripFences(text) ==
    LET unfenced == SelectSeq(text, LAMBDA tok : ~IsMark(tok, "fence json") /\ ~IsMark(tok, "fence"))
        RECURSIVE TrimStart(_)
        TrimStart(t) == IF t # <<>> /\ IsSpace(Head(t)) THEN TrimStart(Tail(t)) ELSE t
        RECURSIVE TrimEnd(_)
        TrimEnd(t) == IF t # <<>> /\ IsSpace(t[Len(t)]) THEN TrimEnd(SubSeq(t, 1, Len(t) - 1)) ELSE t
    IN TrimEnd(TrimStart(unfenced))

\* verifyInventory, given the text of the answer: the value it returns, or
\* threw = TRUE when reading the photo, the request or JSON.parse throws, or
\* when data is null (data.results of null is a TypeError); the catch rethrows
verifyInventory(answer) ==
    IF ~answer.ok THEN [threw |-> TRUE, value |-> Undefined]
    ELSE LET r == JSONParse(StripFences(answer.text)) IN
         IF ~r.ok \/ r.v = Null THEN [threw |-> TRUE, value |-> Undefined]
         ELSE [threw |-> FALSE, value |-> Get(r.v, KResults)]

\* the answers of the service: a text, or a failure of the request
Answers ==
    {[ok |-> TRUE, text |-> t] : t \in ResponseTexts} \cup {[ok |-> FALSE, text |-> <<>>]}

\* what verifyInventory can return or throw, over all answers
verifyInventoryOutcomes == {verifyInventory(answer) : answer \in Answers}

----------------------------------------------------------------------------
(* AuditReportScreen *)

\* an entry of the parsed results array as an AuditResult object
AuditResultOf(v) ==
    [item |-> Get(v, KItem).s,
     expected_count |-> Get(v, KExpected).n,
     found_count |-> Get(v, KFound).n,
     status |-> Get(v, KStatus).s[1].w]

\* the audits the report screen is opened for: the expected items (as passed
\* in the route, JSON.stringify(items)) and the items on the new photo
ExpectedLists ==
    {<<>>, <<Item(Sofa, 1, Good)>>, <<Item(Sofa, 1, Good), Item(Lamp, 1, Good)>>,
     <<Item(Lamp, 1, Good), Item(Sofa, 0, Good)>>}
PhotoLists ==
    {<<>>, <<Item(Sofa, 1, Good)>>, <<Item(Sofa, 0, Good), Item(Sofa, 1, Good)>>,
     <<Item(Lamp, 1, Good)>>}

NoCall == [op |-> "none", index |-> 0, change |-> 0, threw |-> FALSE]

ReportInit(expectedLists, photoLists) ==
    /\ expectedItems \in {Str(Stringify(Arr(l))) : l \in expectedLists}
    /\ newImage \in photoLists
    /\ loading = TRUE
    /\ results = Arr(<<>>)
    /\ heap = <<>>
    /\ lastCall = NoCall

\* runVerification, run once by the effect when the screen is mounted.
\* newImageUri is always set by the camera screen.
runVerification ==
    /\ loading
    /\ \E ret \in verifyInventoryOutcomes :
         IF Truthy(expectedItems) /\ ~ret.threw
         THEN /\ results' = (IF IsArray(ret.value)
                             THEN Arr([i \in 1..Len(ret.value.a) |-> i])
                             ELSE ret.value)
              /\ heap' = (IF IsArray(ret.value)
                          THEN [i \in 1..Len(ret.value.a) |-> AuditResultOf(ret.value.a[i])]
                          ELSE <<>>)
              /\ lastCall' = [NoCall EXCEPT !.op = "runVerification"]
         ELSE /\ UNCHANGED <<results, heap>>
              /\ lastCall' = [NoCall EXCEPT !.op = "runVerification", !.threw = ret.threw]
    /\ loading' = FALSE
    /\ UNCHANGED <<expectedItems, newImage>>

\* newCount === expected_count ? 'Match' : (newCount === 0 ? 'Missing' : 'Mismatch')
statusOf(newCount, expected_count) ==
    IF newCount = expected_count THEN "Match"
    ELSE IF newCount = 0 THEN "Missing" ELSE "Mismatch"

\* a variant without Math.max
newCountOf_NoClamp(found_count, change) == found_count + change

\* Math.max(0, found_count + change)
newCountOf(found_count, change) == Max(0, found_count + change)

\* does newResults[index].found_count throw?  [...results] throws when results
\* is undefined; newResults[index] is undefined outside 0..length-1
updateThrows(index) ==
    ~IsArray(results) \/ index \notin 0..(Len(results.a) - 1)

\* a variant that applies the change to every row
updateFoundCount_AllRows(index, change) ==
    /\ ~loading
    /\ IF updateThrows(index)
       THEN /\ UNCHANGED <<results, heap>>
            /\ lastCall' = [op |-> "updateFoundCount", index |-> index,
                            change |-> change, threw |-> TRUE]
       ELSE /\ \A ref \in DOMAIN heap : newCountOf(heap[ref].found_count, change) <= MaxFound
            /\ results' = Arr([i \in 1..Len(results.a) |-> results.a[i]])
            /\ heap' = [ref \in DOMAIN heap |->
                          [heap[ref] EXCEPT
                             !.found_count = newCountOf(heap[ref].found_count, change),
                             !.status = statusOf(newCountOf(heap[ref].found_count, change),
                                                 heap[ref].expected_count)]]
            /\ lastCall' = [op |-> "updateFoundCount", index |-> index,
                            change |-> change, threw |-> FALSE]
    /\ UNCHANGED <<expectedItems, newImage, loading>>

\* updateFoundCount(index, change): index counts from 0.  The rows call it with
\* their own index and -1 or +1; it is modelled for every index and change.
updateFoundCount(index, change) ==
    /\ ~loading
    /\ IF updateThrows(index)
       THEN /\ UNCHANGED <<results, heap>>
            /\ lastCall' = [op |-> "updateFoundCount", index |-> index,
                            change |-> change, threw |-> TRUE]
       ELSE LET ref == results.a[index + 1]
                newCount == newCountOf(heap[ref].found_count, change)
            IN /\ newCount <= MaxFound
               \* const newResults = [...results]: a new array of the same references
               /\ results' = Arr([i \in 1..Len(results.a) |-> results.a[i]])
               \* the object of the old array is written in place
               /\ heap' = [heap EXCEPT ![ref].found_count = newCount,
                                       ![ref].status = statusOf(newCount, heap[ref].expected_count)]
               /\ lastCall' = [op |-> "updateFoundCount", index |-> index,
                               change |-> change, threw |-> FALSE]
    /\ UNCHANGED <<expectedItems, newImage, loading>>

Changes == (-MaxDelta)..MaxDelta

\* a variant that writes a copy of the outcome and leaves the object of the
\* closed-over list as it is
updateFoundCountOf_Copy(closure, index, change) ==
    /\ ~loading
    /\ IsArray(closure) /\ index \in 0..(Len(closure.a) - 1)
    /\ LET ref == closure.a[index + 1]
           newCount == newCountOf(heap[ref].found_count, change)
       IN /\ newCount <= MaxFound
          /\ results' = Arr([i \in 1..Len(closure.a) |->
                                IF i = index + 1 THEN Len(heap) + 1 ELSE closure.a[i]])
          /\ heap' = Append(heap, [heap[ref] EXCEPT
                                     !.found_count = newCount,
                                     !.status = statusOf(newCount, heap[ref].expected_count)])
          /\ lastCall' = [op |-> "updateFoundCount", index |-> index,
                          change |-> change, threw |-> FALSE]
    /\ UNCHANGED <<expectedItems, newImage, loading>>

\* updateFoundCount as a row's button calls it: the handler of the last
\* render, whose results is the list of that render, with the row's index
updateFoundCountOf(closure, index, change) ==
    /\ ~loading
    /\ IsArray(closure) /\ index \in 0..(Len(closure.a) - 1)
    /\ LET ref == closure.a[index + 1]
           newCount == newCountOf(heap[ref].found_count, change)
       IN /\ newCount <= MaxFound
          \* const newResults = [...results]: a new array of the same references
          /\ results' = Arr([i \in 1..Len(closure.a) |-> closure.a[i]])
          \* the object of the closed-over array is written in place
          /\ heap' = [heap EXCEPT ![ref].found_count = newCount,
                                  ![ref].status = statusOf(newCount, heap[ref].expected_count)]
          /\ lastCall' = [op |-> "updateFoundCount", index |-> index,
                          change |-> change, threw |-> FALSE]
    /\ UNCHANGED <<expectedItems, newImage, loading>>

\* the step buttons of a row: -1 and +1
Steps == {-1, 1}

\* the effect of the mount: runVerification, whose outcomes are kept
mountEffect ==
    /\ runVerification
    /\ verified' = IF IsArray(results') THEN [i \in 1..Len(results'.a) |-> heap'[results'.a[i]]]
                   ELSE <<>>
    /\ UNCHANGED <<rendered, events>>

\* the screen is rendered again after a change of results
render ==
    /\ rendered # results
    /\ rendered' = results
    /\ UNCHANGED <<expectedItems, newImage, loading, results, heap, lastCall, verified, events>>

\* a step button of the rendered list is pressed
pressStep(index, change) ==
    /\ Len(events) < MaxPresses
    /\ updateFoundCountOf(rendered, index, change)
    /\ events' = Append(events, [index |-> index, change |-> change])
    /\ UNCHANGED <<rendered, verified>>

RenderInit ==
    /\ rendered = Arr(<<>>)
    /\ verified = <<>>
    /\ events = <<>>
Indexes == (-1)..MaxResults

----------------------------------------------------------------------------
(* HomeScreen.renderItem: the card of a scan *)


\* sum + i.count for a number sum: a number plus undefined (or NaN) is NaN
Plus(sum, count) ==
    IF sum.t = "num" /\ count.t = "num" THEN Num(sum.n + count.n) ELSE NaN

\* list.reduce((sum, i) => sum + i.count, 0)
RECURSIVE reduceCount(_, _)
reduceCount(list, sum) ==
    IF list = <<>> THEN sum
    ELSE reduceCount(Tail(list), Plus(sum, Get(Head(list), KCount)))

\* totalItems of the card, from the ai_analysis of the row as it is
totalItems(analysis) ==
    IF IsArray(analysis) THEN reduceCount(analysis.a, Num(0))
    ELSE IF Truthy(analysis) /\ TypeofObject(analysis)
         THEN IF IsArray(Get(analysis, KItems))
              THEN reduceCount(Get(analysis, KItems).a, Num(0))
              ELSE Num(0)
    ELSE Num(0)

----------------------------------------------------------------------------
(* HomeScreen.groupDataByRoom and fetchInventory *)

\* a string given by the codes of its characters
Chars(codes) == [i \in 1..Len(codes) |-> Ch(codes[i])]

Bath == Chars(<<66, 97, 116, 104>>)
PaddedBath == Chars(<<32, 32, 66, 97, 116, 104, 32>>)
Kitchen == Chars(<<75, 105, 116, 99, 104, 101, 110>>)
kitchen == Chars(<<107, 105, 116, 99, 104, 101, 110>>)
Blank == Chars(<<32, 32>>)
Unassigned == Chars(<<85, 110, 97, 115, 115, 105, 103, 110, 101, 100>>)
Constructor == Chars(<<99, 111, 110, 115, 116, 114, 117, 99, 116, 111, 114>>)

\* the room names of the rows: none, empty, blank, padded, differing in case,
\* the default name itself, and the name of a property every object inherits
RoomNameValues ==
    {Null, EmptyString, Str(Blank), Str(Bath), Str(PaddedBath), Str(Kitchen),
     Str(kitchen), Str(Unassigned), Str(Constructor)}

\* a row of the scans table
Row(id, room_name, ai_analysis) ==
    [id |-> id, room_name |-> room_name, ai_analysis |-> ai_analysis,
     image_path |-> <<W("scan"), [num |-> id]>>]

\* the tables of up to n rows with the given room names and analyses; the id
\* of a row is its place in the table
Tables(n, roomNames, analyses) ==
    UNION {{[i \in 1..k |-> Row(i, rooms[i], an[i])] :
               rooms \in [1..k -> roomNames], an \in [1..k -> analyses]} : k \in 0..n}

\* s.trim()
RECURSIVE TrimStart(_)
TrimStart(s) == IF s # <<>> /\ IsSpace(Head(s)) THEN TrimStart(Tail(s)) ELSE s
RECURSIVE TrimEnd(_)
TrimEnd(s) == IF s # <<>> /\ IsSpace(s[Len(s)]) THEN TrimEnd(SubSeq(s, 1, Len(s) - 1)) ELSE s
Trim(s) == TrimEnd(TrimStart(s))

\* a < b for strings: the order of the default Array.prototype.sort, by the
\* codes of the characters, a proper prefix first
LexLess(a, b) ==
    \E i \in 1..(Len(a) + 1) :
        /\ i <= Len(b)
        /\ \A j \in 1..(i - 1) : a[j].c = b[j].c
        /\ (i = Len(a) + 1 \/ a[i].c < b[i].c)

\* keys sorted the other way round
RECURSIVE SortKeys_Descending(_)
SortKeys_Descending(keys) ==
    IF keys = {} THEN <<>>
    ELSE LET greatest == CHOOSE k \in keys : \A other \in keys \ {k} : LexLess(other, k)
         IN <<greatest>> \o SortKeys_Descending(keys \ {greatest})

\* keys.sort()
RECURSIVE SortKeys(_)
SortKeys(keys) ==
    IF keys = {} THEN <<>>
    ELSE LET least == CHOOSE k \in keys : \A other \in keys \ {k} : LexLess(k, other)
         IN <<least>> \o SortKeys(keys \ {least})

\* the names of the properties an object literal inherits that a room name
\* of the model can be equal to: groups[name] is truthy without being set
InheritedKeys == {Constructor}

\* (item.room_name || 'Unassigned').trim()
roomOf(item) ==
    Trim(IF Truthy(item.room_name) THEN item.room_name.s ELSE Unassigned)

\* groups[room].unshift(item)
pushItem_Front(list, item) == <<item>> \o list

\* groups[room].push(item)
pushItem(list, item) == Append(list, item)

\* the forEach of groupDataByRoom from row i on: groups, or threw = TRUE when
\* groups[room] is an inherited property, which has no push (a TypeError)
RECURSIVE forEachRow(_, _, _)
forEachRow(data, i, groups) ==
    IF i > Len(data) THEN [threw |-> FALSE, groups |-> groups]
    ELSE LET room == roomOf(data[i]) IN
         IF room \in DOMAIN groups
         THEN forEachRow(data, i + 1, [groups EXCEPT ![room] = pushItem(groups[room], data[i])])
         ELSE IF room \in InheritedKeys
         THEN [threw |-> TRUE, groups |-> groups]
         ELSE forEachRow(data, i + 1,
                         [k \in DOMAIN groups \cup {room} |->
                            IF k = room THEN pushItem(<<>>, data[i]) ELSE groups[k]])

\* Object.keys(groups).sort().map(room => ({ title: room, data: groups[room] }))
sectionsOf(groups) ==
    LET keys == SortKeys(DOMAIN groups)
    IN [i \in 1..Len(keys) |-> [title |-> Str(keys[i]), data |-> groups[keys[i]]]]

groupDataByRoom(data) ==
    LET r == forEachRow(data, 1, [k \in {} |-> <<>>])
    IN IF r.threw THEN [threw |-> TRUE, sections |-> <<>>]
       ELSE [threw |-> FALSE, sections |-> sectionsOf(r.groups)]

\* no report was made yet
NoReport == [exported |-> FALSE, rooms |-> <<>>]

HomeInit(tables) ==
    /\ scans \in tables
    /\ sections = <<>>
    /\ homeLoading = FALSE
    /\ homeFetch = "none"
    /\ pdfReport = NoReport

\* fetchInventory up to the query, run whenever the screen gets the focus
fetchInventoryStart ==
    /\ ~homeLoading
    /\ homeLoading' = TRUE
    /\ UNCHANGED <<scans, sections, homeFetch, pdfReport>>

\* the query answered with the rows: they are grouped and shown; a throw of
\* groupDataByRoom is caught and logged
fetchInventoryRows ==
    /\ homeLoading
    /\ LET grouped == groupDataByRoom(scans) IN
       IF grouped.threw
       THEN homeFetch' = "threw" /\ UNCHANGED sections
       ELSE homeFetch' = "ok" /\ sections' = grouped.sections
    /\ homeLoading' = FALSE
    /\ UNCHANGED <<scans, pdfReport>>

\* the query answered with an error: it is logged
fetchInventoryError ==
    /\ homeLoading
    /\ homeFetch' = "error"
    /\ homeLoading' = FALSE
    /\ UNCHANGED <<scans, sections, pdfReport>>

----------------------------------------------------------------------------
(* The consumers of a stored analysis: the card and the inventory report *)

\* the list the card sums over
cardItems(analysis) ==
    IF IsArray(analysis) THEN analysis.a
    ELSE IF Truthy(analysis) /\ TypeofObject(analysis) /\ IsArray(Get(analysis, KItems))
         THEN Get(analysis, KItems).a
    ELSE <<>>

\* location of renderItem
cardLocation(analysis) ==
    IF IsArray(analysis) THEN EmptyString
    ELSE IF Truthy(analysis) /\ TypeofObject(analysis) /\ Truthy(Get(analysis, KLocation))
         THEN Get(analysis, KLocation)
    ELSE EmptyString

\* items of generateAndShareReport
pdfItems(analysis) ==
    IF IsArray(analysis) THEN analysis.a
    ELSE IF Truthy(analysis) /\ TypeofObject(analysis) /\ IsArray(Get(analysis, KItems))
         THEN Get(analysis, KItems).a
    ELSE <<>>

\* location of generateAndShareReport: a property read of a string, a
\* number, a boolean or an array gives undefined
pdfLocation(analysis) ==
    IF Truthy(analysis) /\ Truthy(Get(analysis, KLocation))
    THEN Get(analysis, KLocation)
    ELSE EmptyString

\* the Export button, enabled when there are sections: what the report lists
\* for each scan of each section
generateAndShareReport ==
    /\ Len(sections) # 0
    /\ pdfReport' =
          [exported |-> TRUE,
           rooms |-> [sec \in 1..Len(sections) |->
                        [title |-> sections[sec].title,
                         scans |-> [k \in 1..Len(sections[sec].data) |->
                                      [id |-> sections[sec].data[k].id,
                                       items |-> pdfItems(sections[sec].data[k].ai_analysis),
                                       location |-> pdfLocation(sections[sec].data[k].ai_analysis)]]]]]
    /\ UNCHANGED <<scans, sections, homeLoading, homeFetch>>

\* the tables of one scan of the kitchen with each payload
PayloadTables == {<<Row(1, Str(Kitchen), payload)>> : payload \in Payloads}

----------------------------------------------------------------------------
(* PropertyDetailScreen.generateAuditReportForSession *)

UnknownRoom == Chars(<<85, 110, 107, 110, 111, 119, 110, 32, 82, 111, 111, 109>>)
ScanLabel == <<W("Scan")>>

\* the id of the n-th session created
SessionIdOf(n) == Str(<<W("session"), [num |-> n]>>)

\* the session the report is made for
SessionId == SessionIdOf(1)

Completed == Str(<<W("completed")>>)
InProgress == Str(<<W("in_progress")>>)
\* the statuses of a session, and one that is neither
SessionStatuses == {Completed, InProgress, Str(<<W("Completed")>>)}

\* a row of audit_sessions
Session(n, status) ==
    [id |-> SessionIdOf(n), name |-> Str(<<W("Audit - "), [num |-> n]>>), status |-> status]

\* a row of audit_records; the photo of a record is its own
Record(id, original_scan_id, comparison_json) ==
    [id |-> id, original_scan_id |-> original_scan_id, comparison_json |-> comparison_json,
     audit_image_path |-> <<W("audit"), [num |-> id]>>]

\* an analysis with a location
WithLocation == Obj((KItems :> Arr(<<Item(Sofa, 1, Good)>>)) @@ (KLocation :> Str(EastWall)))
\* the scans of the property, each a room name and an analysis: an object
\* with a location, the same object as JSON text, a bare list, a scan
\* without room and analysis, an object with the empty location, an object
\* without location in a room with the empty name
AuditRows ==
    <<<<Str(Kitchen), WithLocation>>, <<Str(Kitchen), Str(Stringify(WithLocation))>>,
      <<Str(Bath), Arr(<<Item(Sofa, 1, Good)>>)>>, <<Null, Null>>,
      <<Str(Bath), Obj((KItems :> Arr(<<>>)) @@ (KLocation :> EmptyString))>>,
      <<EmptyString, Obj(KItems :> Arr(<<>>))>>>>

\* the numbers of a set in ascending order
RECURSIVE Ascending(_)
Ascending(S) ==
    IF S = {} THEN <<>>
    ELSE LET least == CHOOSE n \in S : \A other \in S : n <= other
         IN <<least>> \o Ascending(S \ {least})

\* the tables of up to MaxRecords of these scans, in the order above
AuditTables ==
    {[i \in 1..Cardinality(chosen) |->
         Row(i, AuditRows[Ascending(chosen)[i]][1], AuditRows[Ascending(chosen)[i]][2])] :
        chosen \in {c \in SUBSET (1..Len(AuditRows)) : Cardinality(c) <= MaxRecords}}

\* the comparison_json of a record: none, the list, the list as JSON text
Comparison == Arr(<<OutcomeValue(Sofa, MaxCount, 0, "Missing")>>)
ComparisonValues == {Null, Comparison, Str(Stringify(Comparison))}

\* the records of the session, each referring to a row of the table or, with
\* the id 0, to a scan that is not there
RecordLists(table) ==
    UNION {{[i \in 1..k |-> Record(i, ref[i], cmp[i])] :
               ref \in [1..k -> 0..Len(table)], cmp \in [1..k -> ComparisonValues]} :
              k \in 0..MaxRecords}

\* supabase.storage.from('Photos').getPublicUrl(path).data.publicUrl
getPublicUrl(path) == Str(<<W("https://storage/Photos/")>> \o path)

\* scans.find(s => s.id === record.original_scan_id)
matchingScanOf(record, table) ==
    IF \E i \in 1..Len(table) : table[i].id = record.original_scan_id
    THEN LET first == CHOOSE i \in 1..Len(table) :
                         /\ table[i].id = record.original_scan_id
                         /\ \A j \in 1..(i - 1) : table[j].id # record.original_scan_id
         IN [found |-> TRUE, row |-> table[first]]
    ELSE [found |-> FALSE]

\* matchingScan?.room_name without the default
roomNameOf_NoDefault(matchingScan) ==
    IF matchingScan.found THEN matchingScan.row.room_name ELSE Undefined

\* matchingScan?.room_name || 'Unknown Room'
roomNameOf(matchingScan) ==
    IF matchingScan.found /\ Truthy(matchingScan.row.room_name)
    THEN matchingScan.row.room_name
    ELSE Str(UnknownRoom)

\* Array.isArray(analysis) ? 'Scan' : (analysis?.location || 'Scan')
scanNameOf(matchingScan) ==
    LET analysis == IF matchingScan.found THEN matchingScan.row.ai_analysis ELSE Undefined IN
    IF IsArray(analysis) THEN Str(ScanLabel)
    ELSE IF HasKey(analysis, KLocation) /\ Truthy(analysis.o[KLocation])
         THEN analysis.o[KLocation]
         ELSE Str(ScanLabel)

\* record.comparison_json || []
resultsOf(record) ==
    IF Truthy(record.comparison_json) THEN record.comparison_json ELSE Arr(<<>>)

\* the entry pushed to roomGroup.scans
scanEntryOf(record, table) ==
    LET matchingScan == matchingScanOf(record, table) IN
    [scanName |-> scanNameOf(matchingScan),
     originalImageUri |-> IF matchingScan.found THEN getPublicUrl(matchingScan.row.image_path)
                          ELSE EmptyString,
     auditImageUri |-> getPublicUrl(record.audit_image_path),
     results |-> resultsOf(record)]

\* a find that finds no room
roomGroupOf_NeverFound(rooms, roomName) == 0

\* reportRooms.find(r => r.roomName === roomName): its index, or 0
roomGroupOf(rooms, roomName) ==
    IF \E i \in 1..Len(rooms) : rooms[i].roomName = roomName
    THEN CHOOSE i \in 1..Len(rooms) :
            /\ rooms[i].roomName = roomName
            /\ \A j \in 1..(i - 1) : rooms[j].roomName # roomName
    ELSE 0

\* a body that starts the scans of a room anew with each record
addRecord_Replace(rooms, record, table) ==
    LET roomName == roomNameOf(matchingScanOf(record, table))
        entry == scanEntryOf(record, table)
        at == roomGroupOf(rooms, roomName)
    IN IF at = 0
       THEN Append(rooms, [roomName |-> roomName, scans |-> <<entry>>])
       ELSE [rooms EXCEPT ![at].scans = <<entry>>]

\* the body of records.forEach for one record
addRecord(rooms, record, table) ==
    LET roomName == roomNameOf(matchingScanOf(record, table))
        entry == scanEntryOf(record, table)
        at == roomGroupOf(rooms, roomName)
    IN IF at = 0
       THEN Append(rooms, [roomName |-> roomName, scans |-> <<entry>>])
       ELSE [rooms EXCEPT ![at].scans = Append(@, entry)]

\* records.forEach(...) from record i on
RECURSIVE forEachRecord(_, _, _, _)
forEachRecord(records, i, table, rooms) ==
    IF i > Len(records) THEN rooms
    ELSE forEachRecord(records, i + 1, table, addRecord(rooms, records[i], table))

reportRoomsOf(records, table) == forEachRecord(records, 1, table, <<>>)

AuditInit(tables) ==
    /\ scans \in tables
    /\ auditRecords \in RecordLists(scans)
    /\ generatingAuditId = Null
    /\ reportRooms = <<>>
    /\ auditReport = "none"

\* the PDF button of the session's row in the list of past audits:
\* generateAuditReportForSession up to the two queries
generateAuditReportStart ==
    /\ \E k \in 1..Len(pastAudits) : pastAudits[k].id = SessionId
    /\ generatingAuditId = Null
    /\ generatingAuditId' = SessionId
    /\ UNCHANGED <<auditRecords, reportRooms, auditReport>>

\* both queries answered: the rooms are built and handed to
\* generateAndShareAuditReport
generateAuditReportForSession ==
    /\ generatingAuditId = SessionId
    /\ reportRooms' = reportRoomsOf(auditRecords, scans)
    /\ auditReport' = "shared"
    /\ generatingAuditId' = Null
    /\ UNCHANGED auditRecords

\* a query answered with an error, which is thrown, caught and alerted
generateAuditReportError ==
    /\ generatingAuditId = SessionId
    /\ auditReport' = "failed"
    /\ generatingAuditId' = Null
    /\ UNCHANGED <<auditRecords, reportRooms>>

----------------------------------------------------------------------------
(* DetailScreen.deleteScan *)

\* the rows of a table with the id, and the rows without it:
\* delete().eq('id', id) removes the former
rowsWithId(table, id) == SelectSeq(table, LAMBDA row : row.id = id)
rowsWithoutId(table, id) == SelectSeq(table, LAMBDA row : row.id # id)

\* the scans of the property when the screen is opened on one of them
DeleteTables ==
    { <<Row(1, Str(Kitchen), WithLocation)>>,
      <<Row(1, Str(Kitchen), WithLocation), Row(2, Str(Bath), Arr(<<Item(Sofa, 1, Good)>>))>>,
      <<Row(1, Str(Bath), Str(Stringify(WithLocation))), Row(2, Str(Kitchen), WithLocation)>> }

DeleteInit ==
    /\ scanId \in {scans[k].id : k \in 1..Len(scans)}
    /\ deleteDialog = FALSE
    /\ saving = FALSE
    /\ deleteRequest = "none"
    /\ deletedRows = <<>>

\* the Delete Scan button: the alert with Cancel and Delete is shown
deleteScan ==
    /\ editorShown
    /\ deleteRequest # "done"
    /\ ~saving
    /\ ~deleteDialog
    /\ deleteDialog' = TRUE
    /\ UNCHANGED <<scanId, saving, deleteRequest, deletedRows>>

\* Cancel: the alert closes and nothing runs
cancelDelete ==
    /\ deleteDialog
    /\ deleteDialog' = FALSE
    /\ UNCHANGED <<scanId, saving, deleteRequest, deletedRows>>

\* Delete: setSaving(true) and the delete request is sent
confirmDelete ==
    /\ deleteDialog
    /\ deleteDialog' = FALSE
    /\ saving' = TRUE
    /\ deleteRequest' = "sent"
    /\ UNCHANGED <<scanId, deletedRows>>

deleteDone_Cascade ==
    /\ deleteRequest = "sent"
    /\ scans' = rowsWithoutId(scans, scanId)
    /\ auditRecords' = SelectSeq(auditRecords, LAMBDA record : record.original_scan_id # scanId)
    /\ deletedRows' = deletedRows \o rowsWithId(scans, scanId)
    /\ deleteRequest' = "done"
    /\ UNCHANGED <<scanId, deleteDialog, saving>>

\* the request answered without an error: the row is gone, router.back()
\* leaves the screen
deleteDone ==
    /\ deleteRequest = "sent"
    /\ scans' = rowsWithoutId(scans, scanId)
    /\ auditRecords' = auditRecords
    /\ deletedRows' = deletedRows \o rowsWithId(scans, scanId)
    /\ deleteRequest' = "done"
    /\ UNCHANGED <<scanId, deleteDialog, saving>>

\* the request answered with an error, which is thrown, caught and alerted:
\* setSaving(false)
deleteError ==
    /\ deleteRequest = "sent"
    /\ saving' = FALSE
    /\ deleteRequest' = "none"
    /\ UNCHANGED <<scanId, deleteDialog, deletedRows>>

----------------------------------------------------------------------------
(* PropertyDetailScreen.fetchPastAudits and startNewAudit *)

\* the tables of up to MaxSessions sessions, newest first: the n-th created
\* is the n-th from the end
SessionTables ==
    UNION {{[i \in 1..k |-> Session(k + 1 - i, status[i])] : status \in [1..k -> SessionStatuses]} :
              k \in 0..MaxSessions}

\* the rows without the filter
completedOf_All(data) == data

\* data.filter(a => a.status === 'completed')
completedOf(data) == SelectSeq(data, LAMBDA a : a.status = Completed)

SessionsInit ==
    /\ auditSessions \in SessionTables
    /\ pastAudits = <<>>
    /\ auditsFetch = "none"

\* fetchPastAudits, the query answered with the rows
fetchPastAudits ==
    /\ pastAudits' = completedOf(auditSessions)
    /\ auditsFetch' = "ok"
    /\ UNCHANGED auditSessions

\* fetchPastAudits, the query answered with an error: data is null, the
\* error is logged and the list is set to []
fetchPastAuditsError ==
    /\ pastAudits' = <<>>
    /\ auditsFetch' = "error"
    /\ UNCHANGED auditSessions

\* startNewAudit, confirmed with Start: a session in progress is inserted
startNewAudit ==
    /\ Len(auditSessions) < MaxSessions
    /\ auditSessions' = <<Session(Len(auditSessions) + 1, InProgress)>> \o auditSessions
    /\ UNCHANGED <<pastAudits, auditsFetch>>

----------------------------------------------------------------------------
(* gemini.analyzeImage *)

\* the values the AI service may answer with: the requested object, a bare
\* list, an object without items, items that are no list, and values that
\* are no object
AnalysisValues ==
    {Obj(KItems :> Arr(l)) : l \in {<<>>, <<Item(Sofa, 1, Good)>>, <<Item(Sofa, 1, Good), Item(Lamp, 1, Good)>>}}
    \cup {Arr(<<Item(Sofa, 1, Good)>>), Arr(<<>>), Obj(NoProps), Obj(KItems :> Str(Sofa)),
          Obj(KItems :> Null), Str(Sofa), Num(0), Null}

\* the answers of the service: the text of a value, the same in a markdown
\* fence, a text that is not JSON, or a failure of the request
AnalysisAnswers ==
    {[ok |-> TRUE, text |-> Stringify(v)] : v \in AnalysisValues}
    \cup {[ok |-> TRUE, text |-> Fenced(Stringify(Obj(KItems :> Arr(<<Item(Sofa, 1, Good)>>))))],
          [ok |-> TRUE, text |-> <<W("Sorry")>>], [ok |-> FALSE, text |-> <<>>]}

\* analyzeImage, given the answer: the value it returns (data.items || data),
\* or threw = TRUE when reading the photo, the request or JSON.parse throws,
\* or when data is null (data.items of null is a TypeError); the catch rethrows
analyzeImage(answer) ==
    IF ~answer.ok THEN [threw |-> TRUE, value |-> Undefined]
    ELSE LET r == JSONParse(StripFences(answer.text)) IN
         IF ~r.ok \/ r.v = Null THEN [threw |-> TRUE, value |-> Undefined]
         ELSE [threw |-> FALSE,
               value |-> IF Truthy(Get(r.v, KItems)) THEN Get(r.v, KItems) ELSE r.v]

\* what analyzeImage can return or throw, over all answers
analyzeImageOutcomes == {analyzeImage(answer) : answer \in AnalysisAnswers}

----------------------------------------------------------------------------
(* ScanScreen *)

PropertyId == Str(<<W("property"), [num |-> 1]>>)
\* the uri of the n-th captured photo
PhotoUri(n) == Str(<<W("file:///photo"), [num |-> n], W(".jpg")>>)
\* fileName: Date.now() and the extension of the photo
FileName(now) == Str(<<[num |-> now], W(".jpg")>>)

\* what is typed into the room and location inputs
RoomInputs == {Str(Kitchen), Str(Blank)}
LocationInputs == {EmptyString, Str(EastWall)}

NoPipeline ==
    [pc |-> "idle", photo |-> Null, prop |-> Null, room |-> EmptyString,
     location |-> EmptyString, fileName |-> EmptyString, results |-> Arr(<<>>),
     analysisFailed |-> FALSE]

ScanInit ==
    /\ selectedPropId = Null
    /\ photo = Null
    /\ uploading = FALSE
    /\ analyzing = FALSE
    /\ analysisResults = Null
    /\ scanRoomName = Str(Kitchen)
    /\ scanLocationName = EmptyString
    /\ pipeline = NoPipeline
    /\ storedFiles = {}
    /\ insertedScans = <<>>
    /\ insertedFor = <<>>
    /\ photosTaken = 0
    /\ uploadsDone = 0

\* a property card is pressed on the selection list
selectProperty ==
    /\ selectedPropId = Null
    /\ selectedPropId' = PropertyId
    /\ UNCHANGED <<photo, uploading, analyzing, analysisResults, scanRoomName, scanLocationName,
                   pipeline, storedFiles, insertedScans, insertedFor, photosTaken, uploadsDone>>

\* the room input of the camera view
setRoomName(text) ==
    /\ Truthy(selectedPropId) /\ photo = Null
    /\ scanRoomName' = text
    /\ UNCHANGED <<selectedPropId, photo, uploading, analyzing, analysisResults, scanLocationName,
                   pipeline, storedFiles, insertedScans, insertedFor, photosTaken, uploadsDone>>

\* the location input of the camera view
setLocationName(text) ==
    /\ Truthy(selectedPropId) /\ photo = Null
    /\ scanLocationName' = text
    /\ UNCHANGED <<selectedPropId, photo, uploading, analyzing, analysisResults, scanRoomName,
                   pipeline, storedFiles, insertedScans, insertedFor, photosTaken, uploadsDone>>

\* the shutter button of the camera view
takePicture ==
    /\ Truthy(selectedPropId) /\ photo = Null
    /\ photosTaken < MaxPhotos
    /\ photo' = PhotoUri(photosTaken + 1)
    /\ analysisResults' = Null
    /\ photosTaken' = photosTaken + 1
    /\ UNCHANGED <<selectedPropId, uploading, analyzing, scanRoomName, scanLocationName,
                   pipeline, storedFiles, insertedScans, insertedFor, uploadsDone>>

\* the Retake button, disabled while uploading or analyzing
retake ==
    /\ Truthy(selectedPropId) /\ photo # Null
    /\ ~(uploading \/ analyzing)
    /\ photo' = Null
    /\ analysisResults' = Null
    /\ UNCHANGED <<selectedPropId, uploading, analyzing, scanRoomName, scanLocationName,
                   pipeline, storedFiles, insertedScans, insertedFor, photosTaken, uploadsDone>>

\* the Scan Next Item button, shown with the analysis results
scanNextItem ==
    /\ Truthy(selectedPropId) /\ photo # Null
    /\ Truthy(analysisResults)
    /\ photo' = Null
    /\ analysisResults' = Null
    /\ UNCHANGED <<selectedPropId, uploading, analyzing, scanRoomName, scanLocationName,
                   pipeline, storedFiles, insertedScans, insertedFor, photosTaken, uploadsDone>>

\* the Finish Room button, shown with the analysis results
finishRoom ==
    /\ Truthy(selectedPropId) /\ photo # Null
    /\ Truthy(analysisResults)
    /\ photo' = Null
    /\ analysisResults' = Null
    /\ selectedPropId' = Null
    /\ UNCHANGED <<uploading, analyzing, scanRoomName, scanLocationName,
                   pipeline, storedFiles, insertedScans, insertedFor, photosTaken, uploadsDone>>

\* the Save button, hidden once there are analysis results and disabled
\* while uploading or analyzing: uploadAndAnalyzePhoto up to the upload
uploadAndAnalyzePhoto ==
    /\ Truthy(selectedPropId) /\ photo # Null
    /\ ~Truthy(analysisResults)
    /\ ~(uploading \/ analyzing)
    /\ uploadsDone < MaxUploads
    /\ uploading' = TRUE
    /\ uploadsDone' = uploadsDone + 1
    /\ pipeline' = [pc |-> "upload", photo |-> photo, prop |-> selectedPropId,
                    room |-> scanRoomName, location |-> scanLocationName,
                    fileName |-> FileName(uploadsDone + 1), results |-> Arr(<<>>),
                    analysisFailed |-> FALSE]
    /\ UNCHANGED <<selectedPropId, photo, analyzing, analysisResults, scanRoomName,
                   scanLocationName, storedFiles, insertedScans, insertedFor, photosTaken>>

\* the upload answered with an error: it is thrown, caught and alerted
uploadError ==
    /\ pipeline.pc = "upload"
    /\ uploading' = FALSE
    /\ pipeline' = NoPipeline
    /\ UNCHANGED <<selectedPropId, photo, analyzing, analysisResults, scanRoomName,
                   scanLocationName, storedFiles, insertedScans, insertedFor, photosTaken, uploadsDone>>

\* the upload succeeded: the analysis is started
uploadDone ==
    /\ pipeline.pc = "upload"
    /\ analyzing' = TRUE
    /\ pipeline' = [pipeline EXCEPT !.pc = "analyze"]
    /\ storedFiles' = storedFiles \cup {pipeline.fileName}
    /\ UNCHANGED <<selectedPropId, photo, uploading, analysisResults, scanRoomName,
                   scanLocationName, insertedScans, insertedFor, photosTaken, uploadsDone>>

\* a variant in which a throw of analyzeImage ends the run
analysisDone_Rethrow ==
    /\ pipeline.pc = "analyze"
    /\ \E outcome \in analyzeImageOutcomes :
          /\ analysisResults' = IF outcome.threw THEN analysisResults ELSE outcome.value
          /\ analyzing' = FALSE
          /\ IF ~Truthy(pipeline.prop) \/ outcome.threw
             THEN uploading' = FALSE /\ pipeline' = [NoPipeline EXCEPT !.analysisFailed = outcome.threw]
             ELSE /\ uploading' = uploading
                  /\ pipeline' = [pipeline EXCEPT !.pc = "insert", !.results = outcome.value]
    /\ UNCHANGED <<selectedPropId, photo, scanRoomName, scanLocationName,
                   storedFiles, insertedScans, insertedFor, photosTaken, uploadsDone>>

\* analyzeImage returned or threw; without a property the run alerts and
\* ends, with one the insert is sent
analysisDone ==
    /\ pipeline.pc = "analyze"
    /\ \E outcome \in analyzeImageOutcomes :
          /\ analysisResults' = IF outcome.threw THEN analysisResults ELSE outcome.value
          /\ analyzing' = FALSE
          /\ IF ~Truthy(pipeline.prop)
             THEN uploading' = FALSE /\ pipeline' = NoPipeline
             ELSE /\ uploading' = uploading
                  /\ pipeline' = [pipeline EXCEPT !.pc = "insert",
                                                  !.analysisFailed = outcome.threw,
                                                  !.results = IF outcome.threw THEN Arr(<<>>)
                                                              ELSE outcome.value]
    /\ UNCHANGED <<selectedPropId, photo, scanRoomName, scanLocationName,
                   storedFiles, insertedScans, insertedFor, photosTaken, uploadsDone>>

\* results.length > 0
lengthPositive(value) ==
    CASE IsArray(value) -> Len(value.a) > 0
      [] IsString(value) -> Len(value.s) > 0
      [] OTHER -> FALSE

\* the row of the insert
scanRowOf(run) ==
    [image_path |-> run.fileName,
     status |-> IF lengthPositive(run.results) THEN Str(<<W("complete")>>)
                ELSE Str(<<W("uploaded")>>),
     room_name |-> run.room,
     property_id |-> run.prop,
     ai_analysis |-> Obj((KItems :> run.results) @@ (KLocation :> run.location))]

\* the insert succeeded: the row is in the table, the total is alerted
insertDone ==
    /\ pipeline.pc = "insert"
    /\ insertedScans' = Append(insertedScans, scanRowOf(pipeline))
    /\ insertedFor' = Append(insertedFor, pipeline.photo)
    /\ uploading' = FALSE
    /\ pipeline' = NoPipeline
    /\ UNCHANGED <<selectedPropId, photo, analyzing, analysisResults, scanRoomName,
                   scanLocationName, storedFiles, photosTaken, uploadsDone>>

\* a variant that returns without the finally
insertError_NoFinally ==
    /\ pipeline.pc = "insert"
    /\ pipeline' = NoPipeline
    /\ UNCHANGED <<selectedPropId, photo, uploading, analyzing, analysisResults, scanRoomName,
                   scanLocationName, storedFiles, insertedScans, insertedFor, photosTaken, uploadsDone>>

\* the insert answered with an error: it is alerted
insertError ==
    /\ pipeline.pc = "insert"
    /\ uploading' = FALSE
    /\ pipeline' = NoPipeline
    /\ UNCHANGED <<selectedPropId, photo, analyzing, analysisResults, scanRoomName,
                   scanLocationName, storedFiles, insertedScans, insertedFor, photosTaken, uploadsDone>>

----------------------------------------------------------------------------
(* Specifications *)

DetailIdle ==
    /\ dbAnalysis = Null
    /\ scan = "null"
    /\ items = <<>>
    /\ locationName = EmptyString
    /\ detailLoading = TRUE

HomeIdle == HomeInit({<<>>})

AuditIdle ==
    /\ auditRecords = <<>>
    /\ generatingAuditId = Null
    /\ reportRooms = <<>>
    /\ auditReport = "none"

\* the one session of the report, completed and listed
SessionsOfReport ==
    /\ auditSessions = <<Session(1, Completed)>>
    /\ pastAudits = <<Session(1, Completed)>>
    /\ auditsFetch = "ok"

SessionsIdle ==
    /\ auditSessions = <<>>
    /\ pastAudits = <<>>
    /\ auditsFetch = "none"

ScanIdle == ScanInit

RenderIdle == RenderInit

DeleteIdle ==
    /\ scanId = 0
    /\ deleteDialog = FALSE
    /\ saving = FALSE
    /\ deleteRequest = "none"
    /\ deletedRows = <<>>

ReportIdle ==
    /\ expectedItems = EmptyString
    /\ newImage = <<>>
    /\ loading = TRUE
    /\ results = Arr(<<>>)
    /\ heap = <<>>
    /\ lastCall = NoCall

\* the scan detail screen
InitDetail == DetailInit /\ ReportIdle /\ HomeIdle /\ AuditIdle /\ SessionsIdle /\ ScanIdle /\ RenderIdle /\ EditIdle /\ DeleteIdle
NextDetail ==
    \/ fetchScanDetails /\ UNCHANGED <<reportVars, homeVars, auditVars, sessionVars, scanVars, renderVars, editVars, deleteVars>>
    \/ fetchScanDetailsError /\ UNCHANGED <<reportVars, homeVars, auditVars, sessionVars, scanVars, renderVars, editVars, deleteVars>>
SpecDetail == InitDetail /\ [][NextDetail]_vars

\* the audit report screen: verification only, over several audits
InitVerify ==
    ReportInit(ExpectedLists, PhotoLists) /\ DetailIdle /\ HomeIdle /\ AuditIdle /\ SessionsIdle /\ ScanIdle /\ RenderIdle /\ EditIdle /\ DeleteIdle
NextVerify == runVerification /\ UNCHANGED <<detailVars, homeVars, auditVars, sessionVars, scanVars, renderVars, editVars, deleteVars>>
SpecVerify == InitVerify /\ [][NextVerify]_vars

\* the audit report screen: verification and adjustments, for one audit
Init ==
    /\ ReportInit({<<Item(Sofa, 1, Good)>>}, {<<Item(Sofa, 1, Good)>>})
    /\ DetailIdle /\ HomeIdle /\ AuditIdle /\ SessionsIdle /\ ScanIdle /\ RenderIdle /\ EditIdle /\ DeleteIdle
Next ==
    \/ runVerification /\ UNCHANGED <<detailVars, homeVars, auditVars, sessionVars, scanVars, renderVars, editVars, deleteVars>>
    \/ \E index \in Indexes, change \in Changes :
         updateFoundCount(index, change) /\ UNCHANGED <<detailVars, homeVars, auditVars, sessionVars, scanVars, renderVars, editVars, deleteVars>>
Spec == Init /\ [][Next]_vars

\* the home screen: the rows differ in their room names only
InitHome ==
    /\ HomeInit(Tables(MaxScans, RoomNameValues, {Null}) \cup PayloadTables)
    /\ DetailIdle /\ ReportIdle /\ AuditIdle /\ SessionsIdle /\ ScanIdle /\ RenderIdle /\ EditIdle /\ DeleteIdle
NextHome ==
    \/ fetchInventoryStart /\ UNCHANGED <<detailVars, reportVars, auditVars, sessionVars, scanVars, renderVars, editVars, deleteVars>>
    \/ fetchInventoryRows /\ UNCHANGED <<detailVars, reportVars, auditVars, sessionVars, scanVars, renderVars, editVars, deleteVars>>
    \/ fetchInventoryError /\ UNCHANGED <<detailVars, reportVars, auditVars, sessionVars, scanVars, renderVars, editVars, deleteVars>>
    \/ generateAndShareReport /\ UNCHANGED <<detailVars, reportVars, auditVars, sessionVars, scanVars, renderVars, editVars, deleteVars>>
SpecHome == InitHome /\ [][NextHome]_vars

\* the audit report of a session of the property
InitAudit ==
    /\ AuditInit(AuditTables)
    /\ sections = <<>> /\ homeLoading = FALSE /\ homeFetch = "none" /\ pdfReport = NoReport
    /\ DetailIdle /\ ReportIdle /\ SessionsOfReport /\ ScanIdle /\ RenderIdle /\ EditIdle /\ DeleteIdle
NextAudit ==
    \/ generateAuditReportStart /\ UNCHANGED <<detailVars, reportVars, homeVars, sessionVars, scanVars, renderVars, editVars, deleteVars>>
    \/ generateAuditReportForSession /\ UNCHANGED <<detailVars, reportVars, homeVars, sessionVars, scanVars, renderVars, editVars, deleteVars>>
    \/ generateAuditReportError /\ UNCHANGED <<detailVars, reportVars, homeVars, sessionVars, scanVars, renderVars, editVars, deleteVars>>
SpecAudit == InitAudit /\ [][NextAudit]_vars

\* the past audits of the property
InitSessions == SessionsInit /\ DetailIdle /\ ReportIdle /\ HomeIdle /\ AuditIdle /\ ScanIdle /\ RenderIdle /\ EditIdle /\ DeleteIdle
NextSessions ==
    \/ fetchPastAudits /\ UNCHANGED <<detailVars, reportVars, homeVars, auditVars, scanVars, renderVars, editVars, deleteVars>>
    \/ fetchPastAuditsError /\ UNCHANGED <<detailVars, reportVars, homeVars, auditVars, scanVars, renderVars, editVars, deleteVars>>
    \/ startNewAudit /\ UNCHANGED <<detailVars, reportVars, homeVars, auditVars, scanVars, renderVars, editVars, deleteVars>>
SpecSessions == InitSessions /\ [][NextSessions]_vars

\* the scan screen
InitScan == ScanInit /\ DetailIdle /\ ReportIdle /\ HomeIdle /\ AuditIdle /\ SessionsIdle /\ RenderIdle /\ EditIdle /\ DeleteIdle
NextScan ==
    \/ selectProperty /\ UNCHANGED <<detailVars, reportVars, homeVars, auditVars, sessionVars, renderVars, editVars, deleteVars>>
    \/ (\E text \in RoomInputs : setRoomName(text)) /\ UNCHANGED <<detailVars, reportVars, homeVars, auditVars, sessionVars, renderVars, editVars, deleteVars>>
    \/ (\E text \in LocationInputs : setLocationName(text)) /\ UNCHANGED <<detailVars, reportVars, homeVars, auditVars, sessionVars, renderVars, editVars, deleteVars>>
    \/ takePicture /\ UNCHANGED <<detailVars, reportVars, homeVars, auditVars, sessionVars, renderVars, editVars, deleteVars>>
    \/ retake /\ UNCHANGED <<detailVars, reportVars, homeVars, auditVars, sessionVars, renderVars, editVars, deleteVars>>
    \/ scanNextItem /\ UNCHANGED <<detailVars, reportVars, homeVars, auditVars, sessionVars, renderVars, editVars, deleteVars>>
    \/ finishRoom /\ UNCHANGED <<detailVars, reportVars, homeVars, auditVars, sessionVars, renderVars, editVars, deleteVars>>
    \/ uploadAndAnalyzePhoto /\ UNCHANGED <<detailVars, reportVars, homeVars, auditVars, sessionVars, renderVars, editVars, deleteVars>>
    \/ uploadError /\ UNCHANGED <<detailVars, reportVars, homeVars, auditVars, sessionVars, renderVars, editVars, deleteVars>>
    \/ uploadDone /\ UNCHANGED <<detailVars, reportVars, homeVars, auditVars, sessionVars, renderVars, editVars, deleteVars>>
    \/ analysisDone /\ UNCHANGED <<detailVars, reportVars, homeVars, auditVars, sessionVars, renderVars, editVars, deleteVars>>
    \/ insertDone /\ UNCHANGED <<detailVars, reportVars, homeVars, auditVars, sessionVars, renderVars, editVars, deleteVars>>
    \/ insertError /\ UNCHANGED <<detailVars, reportVars, homeVars, auditVars, sessionVars, renderVars, editVars, deleteVars>>
SpecScan == InitScan /\ [][NextScan]_vars

\* the audit report screen with its renders: the answers of the AI are the
\* lists whose statuses follow from their counts
InitRender ==
    /\ ReportInit({<<Item(Sofa, 1, Good)>>}, {<<Item(Sofa, 1, Good)>>}) /\ RenderInit
    /\ DetailIdle /\ HomeIdle /\ AuditIdle /\ SessionsIdle /\ ScanIdle /\ EditIdle /\ DeleteIdle
NextRender ==
    \/ /\ mountEffect
       /\ \A ref \in DOMAIN heap' :
             heap'[ref].status = statusOf(heap'[ref].found_count, heap'[ref].expected_count)
       /\ UNCHANGED <<detailVars, homeVars, auditVars, sessionVars, scanVars, editVars, deleteVars>>
    \/ render /\ UNCHANGED <<detailVars, homeVars, auditVars, sessionVars, scanVars, editVars, deleteVars>>
    \/ \E index \in Indexes, change \in Steps :
         pressStep(index, change) /\ UNCHANGED <<detailVars, homeVars, auditVars, sessionVars, scanVars, editVars, deleteVars>>
SpecRender == InitRender /\ [][NextRender]_vars

\* the scan detail screen with its editor
InitEdit ==
    DetailInit /\ dbAnalysis \in EditPayloads /\ EditInit /\ ReportIdle /\ HomeIdle /\ AuditIdle /\ SessionsIdle /\ ScanIdle /\ RenderIdle /\ DeleteIdle
NextEdit ==
    \/ fetchScanDetails /\ UNCHANGED <<reportVars, homeVars, auditVars, sessionVars, scanVars, renderVars, editVars, deleteVars>>
    \/ fetchScanDetailsError /\ UNCHANGED <<reportVars, homeVars, auditVars, sessionVars, scanVars, renderVars, editVars, deleteVars>>
    \/ \E index \in 0..(MaxItems + MaxEdits), change \in {-1, 1} :
          updateItemCount(index, change) /\ UNCHANGED <<reportVars, homeVars, auditVars, sessionVars, scanVars, renderVars, deleteVars>>
    \/ \E index \in 0..(MaxItems + MaxEdits), text \in NameInputs :
          updateItemName(index, text) /\ UNCHANGED <<reportVars, homeVars, auditVars, sessionVars, scanVars, renderVars, deleteVars>>
    \/ addItem /\ UNCHANGED <<reportVars, homeVars, auditVars, sessionVars, scanVars, renderVars, deleteVars>>
    \/ \E index \in 0..(MaxItems + MaxEdits) :
          removeItem(index) /\ UNCHANGED <<reportVars, homeVars, auditVars, sessionVars, scanVars, renderVars, deleteVars>>
SpecEdit == InitEdit /\ [][NextEdit]_vars

\* the scan detail screen of one scan of the property, its Delete Scan
\* button, and the audit report of the property's session
InitDelete ==
    /\ AuditInit(DeleteTables)
    /\ sections = <<>> /\ homeLoading = FALSE /\ homeFetch = "none" /\ pdfReport = NoReport
    /\ DeleteInit
    /\ dbAnalysis = rowsWithId(scans, scanId)[1].ai_analysis
    /\ scan = "null" /\ items = <<>> /\ locationName = EmptyString /\ detailLoading = TRUE
    /\ ReportIdle /\ SessionsOfReport /\ ScanIdle /\ RenderIdle /\ EditIdle
NextDelete ==
    \/ fetchScanDetails /\ UNCHANGED <<homeVars, auditVars, deleteVars>> /\ UNCHANGED <<reportVars, sessionVars, scanVars, renderVars, editVars>>
    \/ fetchScanDetailsError /\ UNCHANGED <<homeVars, auditVars, deleteVars>> /\ UNCHANGED <<reportVars, sessionVars, scanVars, renderVars, editVars>>
    \/ deleteScan /\ UNCHANGED <<detailVars, homeVars, auditVars>> /\ UNCHANGED <<reportVars, sessionVars, scanVars, renderVars, editVars>>
    \/ cancelDelete /\ UNCHANGED <<detailVars, homeVars, auditVars>> /\ UNCHANGED <<reportVars, sessionVars, scanVars, renderVars, editVars>>
    \/ confirmDelete /\ UNCHANGED <<detailVars, homeVars, auditVars>> /\ UNCHANGED <<reportVars, sessionVars, scanVars, renderVars, editVars>>
    \/ deleteDone
          /\ UNCHANGED <<sections, homeLoading, homeFetch, pdfReport>>
          /\ UNCHANGED <<generatingAuditId, reportRooms, auditReport>>
          /\ UNCHANGED detailVars /\ UNCHANGED <<reportVars, sessionVars, scanVars, renderVars, editVars>>
    \/ deleteError /\ UNCHANGED <<detailVars, homeVars, auditVars>> /\ UNCHANGED <<reportVars, sessionVars, scanVars, renderVars, editVars>>
    \/ generateAuditReportStart /\ UNCHANGED <<detailVars, homeVars, deleteVars>> /\ UNCHANGED <<reportVars, sessionVars, scanVars, renderVars, editVars>>
    \/ generateAuditReportForSession /\ UNCHANGED <<detailVars, homeVars, deleteVars>> /\ UNCHANGED <<reportVars, sessionVars, scanVars, renderVars, editVars>>
    \/ generateAuditReportError /\ UNCHANGED <<detailVars, homeVars, deleteVars>> /\ UNCHANGED <<reportVars, sessionVars, scanVars, renderVars, editVars>>
SpecDelete == InitDelete /\ [][NextDelete]_vars

----------------------------------------------------------------------------
(* Properties of the audit report screen *)

\* the Match / Missing / Mismatch rule of the data model
RuleStatus(found, expected) ==
    IF found = expected THEN "Match"
    ELSE IF found = 0 /\ expected > 0 THEN "Missing"
    ELSE "Mismatch"

\* the outcomes seen through a list of references, in a given heap
Deref(list, h) == [i \in 1..Len(list.a) |-> h[list.a[i]]]

Adjusted == lastCall.op = "updateFoundCount" /\ ~lastCall.threw
AdjustStep == lastCall'.op = "updateFoundCount" /\ ~lastCall'.threw

\* C1: in every state of the report screen every outcome of the results list
\* has the status the Match / Missing / Mismatch rule gives for its counts.
C1_StatusRule ==
    IsArray(results) =>
        \A i \in 1..Len(results.a) :
            heap[results.a[i]].status =
                RuleStatus(heap[results.a[i]].found_count, heap[results.a[i]].expected_count)

\* C2: an adjustment at an index in range sets the found count of that outcome
\* to max(0, old + change), never below 0, and sets its status by the rule.
C2_AdjustClampsAndReclassifies ==
    [][AdjustStep =>
        LET ref == results.a[lastCall'.index + 1]
            old == heap[ref].found_count
            sum == old + lastCall'.change
        IN /\ heap'[ref].found_count = (IF sum < 0 THEN 0 ELSE sum)
           /\ heap'[ref].found_count >= 0
           /\ heap'[ref].status =
                RuleStatus(heap'[ref].found_count, heap'[ref].expected_count)]_vars

\* a decrement has left an outcome at found count 0, status Missing
C2_Witness ==
    /\ Adjusted
    /\ lastCall.change < 0
    /\ heap[results.a[lastCall.index + 1]].found_count = 0
    /\ heap[results.a[lastCall.index + 1]].status = "Missing"

\* C3: an adjustment with an index outside the list does not fail.
C3_OutOfRangeDoesNotFail ==
    (lastCall.op = "updateFoundCount" /\ IsArray(results)
        /\ lastCall.index \notin 0..(Len(results.a) - 1))
    => ~lastCall.threw

\* C4: after an adjustment, the list held before it still shows the old found
\* count and status of every entry.
C4_PriorListUntouched ==
    [][AdjustStep => Deref(results, heap') = Deref(results, heap)]_vars

\* C5: an adjustment at index i keeps the length and the order of the list, the
\* item and the expected count at i, and every field at the other positions.
C5_AdjustFrame ==
    [][AdjustStep =>
        LET at == lastCall'.index + 1 IN
        /\ IsArray(results')
        /\ Len(results'.a) = Len(results.a)
        /\ results'.a = results.a
        /\ DOMAIN heap' = DOMAIN heap
        /\ Deref(results', heap')[at].item = Deref(results, heap)[at].item
        /\ Deref(results', heap')[at].expected_count = Deref(results, heap)[at].expected_count
        /\ \A j \in 1..Len(results.a) :
              j # at => Deref(results', heap')[j] = Deref(results, heap)[j]]_vars

\* an outcome of a list of two was adjusted to a count that differs from the
\* other outcome's
C5_Witness ==
    /\ Adjusted
    /\ Len(results.a) >= 2
    /\ lastCall.change # 0
    /\ heap[results.a[1]].found_count # heap[results.a[2]].found_count

\* the count of the first item of a list with the given name, 0 without one
RECURSIVE FirstCount(_, _)
FirstCount(list, name) ==
    IF list = <<>> THEN 0
    ELSE IF Get(Head(list), KName) = Str(name) THEN Get(Head(list), KCount).n
    ELSE FirstCount(Tail(list), name)

\* C6: once verification is over the results are one outcome per expected item,
\* in the order of the expected list, the expected count that of the item and
\* the found count that of the first item of that name on the photo.
C6_OneOutcomePerExpectedItem ==
    ~loading =>
        LET expected == JSONParse(expectedItems.s).v.a IN
        /\ IsArray(results)
        /\ Len(results.a) = Len(expected)
        /\ \A i \in 1..Len(expected) :
              i <= Len(results.a) =>
                /\ Str(heap[results.a[i]].item) = Get(expected[i], KName)
                /\ heap[results.a[i]].expected_count = Get(expected[i], KCount).n
                /\ heap[results.a[i]].found_count
                      = FirstCount(newImage, Get(expected[i], KName).s)

----------------------------------------------------------------------------
(* Properties of the analysis normalisation of the detail screen *)

Fetched == scan = "row"

EmptyResult == items = <<>> /\ locationName = EmptyString

\* C7: after the fetch the item list is a list and the location is a string.
C7_NormalisedShape ==
    Fetched => /\ DOMAIN items = 1..Len(items)
               /\ IsString(locationName)

\* { items: I, location: L } for a list I of well-formed items and a string L
IsCanonical(v) ==
    /\ v.t = "obj"
    /\ DOMAIN v.o = {KItems, KLocation}
    /\ v.o[KItems].t = "arr"
    /\ \A i \in 1..Len(v.o[KItems].a) : v.o[KItems].a[i] \in WellFormedItems
    /\ v.o[KLocation].t = "str"

\* C8: a canonical payload { items: I, location: L } yields items I and
\* location L; the canonical form of any result yields that same result.
C8_RoundTrip ==
    Fetched =>
        /\ IsCanonical(dbAnalysis) =>
              /\ items = dbAnalysis.o[KItems].a
              /\ locationName = dbAnalysis.o[KLocation]
        /\ LET again == aiAnalysisOf(Obj((KItems :> Arr(items)) @@ (KLocation :> locationName)))
           IN parsedItems(again) = items /\ parsedLocation(again) = locationName

C8_Witness ==
    /\ Fetched
    /\ IsCanonical(dbAnalysis)
    /\ items = <<Item(Sofa, 0, Good), Item(Lamp, 1, Good)>>
    /\ locationName = Str(EastWall)

\* every payload that is not a string, with its JSON text
EncodedNative == {[text |-> Str(Stringify(v)), value |-> v] : v \in NativePayloads}

Scenario4 ==
    Str(<<P("{"), [lit |-> KItems], P(":"), P("["),
          P("{"), [lit |-> KName], P(":"), [lit |-> Sofa], P(","),
                  [lit |-> KCount], P(":"), [num |-> 1], P(","),
                  [lit |-> KCondition], P(":"), [lit |-> Good], P("}"),
          P("]"), P(","), [lit |-> KLocation], P(":"), [lit |-> EastWall], P("}")>>)

\* C9: a payload that is the JSON text of an array or an object yields what that
\* array or object yields; the text of any other value, a text encoded twice
\* and a text that is not JSON yield the empty result.
C9_StringDecodedOnce ==
    (Fetched /\ IsString(dbAnalysis)) =>
        /\ \A e \in EncodedNative :
              dbAnalysis = e.text =>
                 IF e.value.t \in {"arr", "obj"}
                 THEN items = parsedItems(e.value) /\ locationName = parsedLocation(e.value)
                 ELSE EmptyResult
        /\ dbAnalysis \in EncodedTwice => EmptyResult
        /\ dbAnalysis \in {Str(g) : g \in GarbageTexts} => EmptyResult
        /\ dbAnalysis = Scenario4 =>
              items = <<Item(Sofa, 1, Good)>> /\ locationName = Str(EastWall)

\* the text of a wrapped object was decoded and its items and location used
C9_Witness ==
    /\ Fetched
    /\ dbAnalysis = Str(Stringify(Obj((KItems :> Arr(<<Item(Lamp, 1, Good)>>))
                                      @@ (KLocation :> Str(EastWall)))))
    /\ items = <<Item(Lamp, 1, Good)>>
    /\ locationName = Str(EastWall)

\* not a string, not a bare array, not an object with an array under items
IsOtherPayload(v) ==
    /\ v.t \notin {"str", "arr"}
    /\ ~(HasKey(v, KItems) /\ IsArray(Get(v, KItems)))

SourceItems(v) ==
    IF IsArray(v) THEN v.a
    ELSE IF HasKey(v, KItems) /\ IsArray(v.o[KItems]) THEN v.o[KItems].a
    ELSE <<>>

\* the field of an item, or the default when the item does not have it
FieldOr(item, key, default) ==
    IF HasKey(item, key) THEN item.o[key] ELSE default

\* C11: the fetch keeps one item per input item, in order, with a missing count
\* set to 0 and a missing condition or name set to ""; the total of the counts
\* shown on the card of the row is then a number >= 0.
C11_MissingFieldsFilled ==
    (Fetched /\ ~IsString(dbAnalysis)) =>
        /\ Len(items) = Len(SourceItems(dbAnalysis))
        /\ \A i \in 1..Len(SourceItems(dbAnalysis)) :
              i <= Len(items) =>
                /\ Get(items[i], KName) = FieldOr(SourceItems(dbAnalysis)[i], KName, EmptyString)
                /\ Get(items[i], KCount) = FieldOr(SourceItems(dbAnalysis)[i], KCount, Num(0))
                /\ Get(items[i], KCondition)
                      = FieldOr(SourceItems(dbAnalysis)[i], KCondition, EmptyString)
        /\ totalItems(dbAnalysis).t = "num"
        /\ totalItems(dbAnalysis).n >= 0

----------------------------------------------------------------------------
(* Properties of the grouping by room *)

\* the rows answered and grouped without a failure
Grouped == homeFetch = "ok"

\* the places <<section, position>> where the row with this id is shown
PlacesOf(id) ==
    {pl \in UNION {{<<sec, pos>> : pos \in 1..Len(sections[sec].data)} : sec \in 1..Len(sections)} :
        sections[pl[1]].data[pl[2]].id = id}

SectionOf(id) == (CHOOSE pl \in PlacesOf(id) : TRUE)[1]

RoomNamesOf(table) == [i \in 1..Len(table) |-> table[i].room_name]

\* C12: once the query has answered with the rows, the sections are a
\* partition of the rows by the key (room_name || "Unassigned").trim(): every
\* row is shown in exactly one section, every shown row is a row of the
\* input, no section is empty, and two rows share a section iff their keys
\* are equal.
C12_Partition ==
    homeFetch \in {"ok", "threw"} =>
        /\ \A i \in 1..Len(scans) : Cardinality(PlacesOf(i)) = 1
        /\ \A sec \in 1..Len(sections) :
              /\ Len(sections[sec].data) >= 1
              /\ \A pos \in 1..Len(sections[sec].data) :
                    /\ sections[sec].data[pos].id \in 1..Len(scans)
                    /\ sections[sec].data[pos] = scans[sections[sec].data[pos].id]
        /\ \A i, j \in 1..Len(scans) :
              (PlacesOf(i) # {} /\ PlacesOf(j) # {}) =>
                  ((SectionOf(i) = SectionOf(j)) <=> (roomOf(scans[i]) = roomOf(scans[j])))

\* the rows of Scenario 5
Scenario5 == RoomNamesOf(scans) = <<Str(kitchen), Str(Kitchen), Str(PaddedBath)>>

\* C13: the titles of the sections are pairwise distinct and strictly
\* ascending in the case-sensitive order of their characters; the room names
\* "kitchen", "Kitchen", "  Bath " give "Bath", "Kitchen", "kitchen".
C13_TitlesAscending ==
    Grouped =>
        /\ \A i, j \in 1..Len(sections) :
              i < j => /\ sections[i].title # sections[j].title
                       /\ LexLess(sections[i].title.s, sections[j].title.s)
        /\ Scenario5 =>
              [i \in 1..Len(sections) |-> sections[i].title] = <<Str(Bath), Str(Kitchen), Str(kitchen)>>

C13_Witness == Grouped /\ Scenario5 /\ Len(sections) = 3

\* C14: inside a section the rows are in the order of the input: a row that
\* precedes another one of the same section in the input precedes it in the
\* section's data.
C14_OrderInSectionKept ==
    Grouped =>
        \A sec \in 1..Len(sections) : \A k, l \in 1..Len(sections[sec].data) :
            k < l => sections[sec].data[k].id < sections[sec].data[l].id

\* two rows of one room with a row of another room between them
C14_Witness ==
    /\ Grouped
    /\ Len(scans) = 3
    /\ roomOf(scans[1]) = roomOf(scans[3])
    /\ roomOf(scans[1]) # roomOf(scans[2])
    /\ \E sec \in 1..Len(sections) : Len(sections[sec].data) = 2

\* a room name of blanks only
IsBlank(value) == IsString(value) /\ \A i \in 1..Len(value.s) : IsSpace(value.s[i])

\* C15: a row whose room name is missing, empty or only whitespace is shown
\* under the title "Unassigned", and no section has the empty title.
C15_BlankIsUnassigned ==
    Grouped =>
        /\ \A sec \in 1..Len(sections) : sections[sec].title # EmptyString
        /\ \A i \in 1..Len(scans) :
              (scans[i].room_name = Null \/ IsBlank(scans[i].room_name)) =>
                  \A pl \in PlacesOf(i) : sections[pl[1]].title = Str(Unassigned)

----------------------------------------------------------------------------
(* Properties of the audit report *)

\* the rooms were built from the records and the scans and handed on
Built == auditReport = "shared"

\* the places <<room, position>> of the entries of record i, known by the
\* record's own audit photo
EntryPlaces(i) ==
    {pl \in UNION {{<<room, pos>> : pos \in 1..Len(reportRooms[room].scans)} :
                      room \in 1..Len(reportRooms)} :
        reportRooms[pl[1]].scans[pl[2]].auditImageUri
            = getPublicUrl(auditRecords[i].audit_image_path)}

PlaceOf(i) == CHOOSE pl \in EntryPlaces(i) : TRUE
EntryOf(i) == reportRooms[PlaceOf(i)[1]].scans[PlaceOf(i)[2]]

\* the record refers to a scan of the table
Resolved(i) == \E k \in 1..Len(scans) : scans[k].id = auditRecords[i].original_scan_id
ScanOf(i) == scans[CHOOSE k \in 1..Len(scans) : scans[k].id = auditRecords[i].original_scan_id]

RECURSIVE EntryCount(_, _)
EntryCount(rooms, room) ==
    IF room > Len(rooms) THEN 0 ELSE Len(rooms[room].scans) + EntryCount(rooms, room + 1)

\* C16: the number of scan entries over all rooms of the report is the
\* number of records, and every record has exactly one entry.
C16_RecordCountKept ==
    Built =>
        /\ EntryCount(reportRooms, 1) = Len(auditRecords)
        /\ \A i \in 1..Len(auditRecords) : Cardinality(EntryPlaces(i)) = 1

\* a report of MaxRecords records in one room
C16_Witness ==
    /\ Built
    /\ Len(auditRecords) = MaxRecords
    /\ Len(reportRooms) = 1
    /\ Len(reportRooms[1].scans) = MaxRecords

\* C17: a record that refers to no scan of the table has its entry in the
\* room "Unknown Room", named "Scan": it is kept.
C17_UnmatchedKept ==
    Built =>
        \A i \in 1..Len(auditRecords) : ~Resolved(i) =>
            /\ Cardinality(EntryPlaces(i)) = 1
            /\ \A pl \in EntryPlaces(i) :
                  /\ reportRooms[pl[1]].roomName = Str(UnknownRoom)
                  /\ reportRooms[pl[1]].scans[pl[2]].scanName = Str(ScanLabel)
                  /\ reportRooms[pl[1]].scans[pl[2]].originalImageUri = EmptyString

\* a report with a record that refers to no scan and one that refers to a
\* scan of the kitchen
C17_Witness ==
    /\ Built
    /\ \E i, j \in 1..Len(auditRecords) :
          /\ ~Resolved(i)
          /\ Resolved(j) /\ ScanOf(j).room_name = Str(Kitchen)
    /\ Len(reportRooms) = 2

\* C18: the entry of a record that refers to a scan is named by the location
\* of the scan's normalised analysis when that is not empty, and "Scan"
\* otherwise.
C18_ScanNameIsLocation ==
    Built =>
        \A i \in 1..Len(auditRecords) : (Resolved(i) /\ EntryPlaces(i) # {}) =>
            EntryOf(i).scanName =
                IF parsedLocation(aiAnalysisOf(ScanOf(i).ai_analysis)) # EmptyString
                THEN parsedLocation(aiAnalysisOf(ScanOf(i).ai_analysis))
                ELSE Str(ScanLabel)

\* the room name roomNameOf resolves for record i
ResolvedRoom(i) == roomNameOf(matchingScanOf(auditRecords[i], scans))
FirstSeen(roomName) ==
    CHOOSE i \in 1..Len(auditRecords) :
        /\ ResolvedRoom(i) = roomName
        /\ \A j \in 1..(i - 1) : ResolvedRoom(j) # roomName
RecordOf(entry) ==
    CHOOSE i \in 1..Len(auditRecords) :
        entry.auditImageUri = getPublicUrl(auditRecords[i].audit_image_path)

\* C19: the rooms of the report are the distinct resolved room names of the
\* records, each once, in the order in which the records first name them;
\* the entries of a room are in the order of the records.
C19_RoomsFirstSeen ==
    Built =>
        /\ \A r, q \in 1..Len(reportRooms) :
              r # q => reportRooms[r].roomName # reportRooms[q].roomName
        /\ {reportRooms[r].roomName : r \in 1..Len(reportRooms)}
              = {ResolvedRoom(i) : i \in 1..Len(auditRecords)}
        /\ \A r, q \in 1..Len(reportRooms) :
              r < q => FirstSeen(reportRooms[r].roomName) < FirstSeen(reportRooms[q].roomName)
        /\ \A r \in 1..Len(reportRooms) :
              /\ \A k \in 1..Len(reportRooms[r].scans) :
                    ResolvedRoom(RecordOf(reportRooms[r].scans[k])) = reportRooms[r].roomName
              /\ \A k, l \in 1..Len(reportRooms[r].scans) :
                    k < l => RecordOf(reportRooms[r].scans[k]) < RecordOf(reportRooms[r].scans[l])

\* the kitchen is seen before the bath, and comes first
C19_Witness ==
    /\ Built
    /\ Len(reportRooms) = 2
    /\ reportRooms[1].roomName = Str(Kitchen)
    /\ reportRooms[2].roomName = Str(Bath)

\* the row and the record with their JSON texts decoded
NativeRow(row) == [row EXCEPT !.ai_analysis = aiAnalysisOf(@)]
NativeRecord(record) == [record EXCEPT !.comparison_json = aiAnalysisOf(@)]

\* C20: the entry built from an analysis or a comparison_json that is JSON
\* text has the scan name and the outcomes of the entry built from the same
\* value in its native form.
C20_TextAsNative ==
    Built =>
        \A i \in 1..Len(auditRecords) : EntryPlaces(i) # {} =>
            /\ EntryOf(i).results = resultsOf(NativeRecord(auditRecords[i]))
            /\ Resolved(i) =>
                  EntryOf(i).scanName = scanNameOf([found |-> TRUE, row |-> NativeRow(ScanOf(i))])

----------------------------------------------------------------------------
(* Properties of the consumers of an analysis *)

\* what the normaliser of the detail screen makes of a stored analysis
NormalisedItems(raw) == parsedItems(aiAnalysisOf(raw))
NormalisedLocation(raw) == parsedLocation(aiAnalysisOf(raw))

\* C21: for every stored analysis, the items and the location the inventory
\* report lists for a scan, and the items and the location its card uses,
\* are the items and the location the normaliser of the detail screen
\* yields for that analysis.
C21_ConsumersAgree ==
    /\ pdfReport.exported =>
          \A sec \in 1..Len(pdfReport.rooms) : \A k \in 1..Len(pdfReport.rooms[sec].scans) :
              LET listed == pdfReport.rooms[sec].scans[k] IN
              /\ listed.items = NormalisedItems(scans[listed.id].ai_analysis)
              /\ listed.location = NormalisedLocation(scans[listed.id].ai_analysis)
    /\ Grouped =>
          \A sec \in 1..Len(sections) : \A k \in 1..Len(sections[sec].data) :
              LET item == sections[sec].data[k] IN
              /\ cardItems(item.ai_analysis) = NormalisedItems(item.ai_analysis)
              /\ cardLocation(item.ai_analysis) = NormalisedLocation(item.ai_analysis)

----------------------------------------------------------------------------
(* Properties of the past audits *)

\* the places of the table where the listed session k is found
TablePlaces(k) == {i \in 1..Len(auditSessions) : auditSessions[i] = pastAudits[k]}

----------------------------------------------------------------------------
(* Properties of the scan screen *)

Complete == Str(<<W("complete")>>)
Uploaded == Str(<<W("uploaded")>>)

\* the items written with the k-th inserted row
ItemsWritten(k) == insertedScans[k].ai_analysis.o[KItems]

\* C23: a row is inserted with status "complete" iff the analysis gave a
\* list of at least one item, and with status "uploaded" otherwise.
C23_CompleteIffItems ==
    \A k \in 1..Len(insertedScans) :
        /\ insertedScans[k].status \in {Complete, Uploaded}
        /\ insertedScans[k].status = Complete <=>
              (IsArray(ItemsWritten(k)) /\ Len(ItemsWritten(k).a) >= 1)

\* C24: the analysis written with a new scan is an object whose items are a
\* list and whose location is a string.
C24_CanonicalWritten ==
    \A k \in 1..Len(insertedScans) :
        /\ insertedScans[k].ai_analysis.t = "obj"
        /\ IsArray(ItemsWritten(k))
        /\ IsString(insertedScans[k].ai_analysis.o[KLocation])

\* C26: a row is inserted only by a run that has a property and whose file
\* is in the bucket; a run whose upload fails ends without a row; a run
\* whose analysis fails goes on to the insert, and its row has no items and
\* the status "uploaded".
C26_InsertAfterUpload ==
    [][/\ insertedScans' # insertedScans =>
             /\ pipeline.pc = "insert"
             /\ Truthy(pipeline.prop)
             /\ pipeline.fileName \in storedFiles
             /\ Len(insertedScans') = Len(insertedScans) + 1
             /\ SubSeq(insertedScans', 1, Len(insertedScans)) = insertedScans
             /\ insertedScans'[Len(insertedScans')].image_path = pipeline.fileName
             /\ insertedScans'[Len(insertedScans')].property_id = pipeline.prop
             /\ pipeline.analysisFailed =>
                   /\ insertedScans'[Len(insertedScans')].ai_analysis.o[KItems] = Arr(<<>>)
                   /\ insertedScans'[Len(insertedScans')].status = Uploaded
       /\ (pipeline.pc = "upload" /\ pipeline'.pc # "analyze" /\ pipeline' # pipeline) =>
             /\ pipeline'.pc = "idle"
             /\ insertedScans' = insertedScans
             /\ storedFiles' = storedFiles
       /\ (pipeline.pc = "analyze" /\ pipeline' # pipeline /\ Truthy(pipeline.prop)) =>
             pipeline'.pc = "insert"
      ]_vars

\* the analysis of the photo on the screen failed and its row was inserted
\* without items
C26_Witness ==
    /\ pipeline.pc = "idle"
    /\ photo # Null
    /\ analysisResults = Null
    /\ Len(insertedScans) = 1
    /\ insertedFor[1] = photo
    /\ ItemsWritten(1) = Arr(<<>>)
    /\ insertedScans[1].status = Uploaded

\* C29: when no run of uploadAndAnalyzePhoto is under way, uploading and
\* analyzing are false; analyzing is true only while uploading is true.
C29_FlagsReset ==
    /\ pipeline.pc = "idle" => (~uploading /\ ~analyzing)
    /\ analyzing => uploading

\* a run ended by an error of the insert
C29_Witness ==
    /\ pipeline.pc = "idle"
    /\ uploadsDone = 1
    /\ storedFiles # {}
    /\ insertedScans = <<>>
    /\ ~uploading

\* C30: no two inserted rows are made for the same captured photo, and Save
\* can be pressed only when no run is under way.
C30_OneRowPerPhoto ==
    /\ \A k, l \in 1..Len(insertedFor) : k # l => insertedFor[k] # insertedFor[l]
    /\ ENABLED uploadAndAnalyzePhoto => pipeline.pc = "idle"

----------------------------------------------------------------------------
(* Properties of successive adjustments *)

\* one adjustment applied to a list of outcomes
Apply(list, event) ==
    [list EXCEPT ![event.index + 1] =
        [@ EXCEPT !.found_count = newCountOf(@, event.change),
                  !.status = statusOf(newCountOf(list[event.index + 1].found_count, event.change),
                                      list[event.index + 1].expected_count)]]

\* the adjustments of a sequence of events applied one after the other
RECURSIVE ApplyAll(_, _)
ApplyAll(list, evs) ==
    IF evs = <<>> THEN list ELSE ApplyAll(Apply(list, Head(evs)), Tail(evs))

\* C25: the list shown is the verified list with every adjustment applied in
\* the order of the presses, also when a press is handled before the render
\* that follows the press before it.
C25_AdjustmentsInOrder ==
    events # <<>> =>
        /\ IsArray(results)
        /\ Deref(results, heap) = ApplyAll(verified, events)

\* the same row stepped up twice
C25_Witness ==
    /\ Len(events) = 2
    /\ events[1].index = events[2].index
    /\ events[1].change = 1 /\ events[2].change = 1
    /\ heap[results.a[events[1].index + 1]].found_count
          = verified[events[1].index + 1].found_count + 2

----------------------------------------------------------------------------
(* Properties of the item editor *)

\* every count of the list is an integer >= 0
CountsOk(list) ==
    \A k \in 1..Len(list) :
        /\ Get(list[k], KCount).t = "num"
        /\ Get(list[k], KCount).n \in Nat

\* the list without the entry at the 0-based index
Without(list, index) ==
    [k \in 1..(Len(list) - 1) |-> IF k <= index THEN list[k] ELSE list[k + 1]]

\* C27: on a list whose counts are all integers >= 0, every operation of the
\* editor leaves a list whose counts are all integers >= 0; removeItem leaves
\* the list without the entry at its index, addItem leaves the list with one
\* entry appended, and the two update operations change no entry but the one
\* at their index, so the other entries keep their order.
C27_EditorKeepsCounts ==
    [][(lastEdit'.n # lastEdit.n /\ CountsOk(items)) =>
          /\ CountsOk(items')
          /\ lastEdit'.op = "removeItem" =>
                items' = Without(items, lastEdit'.index)
          /\ lastEdit'.op = "addItem" =>
                /\ Len(items') = Len(items) + 1
                /\ SubSeq(items', 1, Len(items)) = items
          /\ lastEdit'.op \in {"updateItemCount", "updateItemName"} =>
                /\ Len(items') = Len(items)
                /\ \A k \in 1..Len(items) :
                      k # lastEdit'.index + 1 => items'[k] = items[k]
      ]_vars

\* the first row was removed as the last of MaxEdits operations, two or more
\* rows are left, one of them with the count 0, and all counts are integers >= 0
C27_Witness ==
    /\ lastEdit.op = "removeItem"
    /\ lastEdit.index = 0
    /\ lastEdit.n = MaxEdits
    /\ Len(items) >= 2
    /\ CountsOk(items)
    /\ \E k \in 1..Len(items) : Get(items[k], KCount) = Num(0)


----------------------------------------------------------------------------
(* Properties of deleting a scan *)

\* a step of the handlers of the Delete Scan button and its alert
DeleteStep == deleteDialog' # deleteDialog \/ deleteRequest' # deleteRequest

\* the records that refer to the scan of the screen
RefersToDeleted(i) == auditRecords[i].original_scan_id = scanId

\* C28: the scans table changes only by the delete request that the Delete
\* button of the alert has sent, and then loses the rows with the id of the
\* screen's scan and no other; no step of deleting changes the audit sessions
\* or the audit records; and a report built after the delete has, for every
\* record that refers to the deleted scan, one entry, under "Unknown Room"
\* and with the scan name "Scan".
C28_DeleteIsLeaf ==
    [][/\ scans' # scans =>
             /\ deleteRequest = "sent" /\ saving
             /\ \A k \in 1..Len(scans') : scans'[k].id # scanId
             /\ scans' = SelectSeq(scans, LAMBDA row : row.id # scanId)
             /\ Len(scans') = Len(scans) - 1
       /\ DeleteStep =>
             /\ auditRecords' = auditRecords
             /\ auditSessions' = auditSessions
       /\ (deleteRequest = "done" /\ generatingAuditId = SessionId /\ auditReport' = "shared") =>
             \A i \in 1..Len(auditRecords) : RefersToDeleted(i) =>
                 /\ Cardinality(EntryPlaces(i)') = 1
                 /\ \A pl \in EntryPlaces(i)' :
                       /\ reportRooms'[pl[1]].roomName = Str(UnknownRoom)
                       /\ reportRooms'[pl[1]].scans[pl[2]].scanName = Str(ScanLabel)
      ]_vars

\* a scan of the kitchen was deleted while another scan remains, and the
\* report built afterwards has a record of the deleted scan under "Unknown
\* Room" and a record of the remaining scan
C28_Witness ==
    /\ deleteRequest = "done"
    /\ Len(deletedRows) = 1 /\ deletedRows[1].room_name = Str(Kitchen)
    /\ Len(scans) = 1
    /\ Built
    /\ \E i, j \in 1..Len(auditRecords) :
          /\ RefersToDeleted(i)
          /\ \E pl \in EntryPlaces(i) : reportRooms[pl[1]].roomName = Str(UnknownRoom)
          /\ Resolved(j)


====
